---- MODULE Spec2Model ----
(***************************************************************************)
(* fsserve: content-addressed publishing pipeline.                         *)
(*                                                                         *)
(* State: the Tree DB (tables content, encoded, gc), the Blob Store (the   *)
(* content directory), the source files the publisher reads, and the wall  *)
(* clock that stamps written blobs.                                        *)
(* Operations: the repo statements (treedbmodel), SQLiteTreeDB, and the    *)
(* publisher Tree (Add, Rm, SyncContent, GC).                              *)
(***************************************************************************)
EXTENDS Integers, Sequences, FiniteSets, TLC

VARIABLES
    ct,      \* table content: name -> [hash, ctype]
    enc,     \* table encoded: set of rows [name, code, ord, hash]
    gc,      \* table gc: set of hashes
    blobs,   \* content directory: hash name -> [data, len, mtime]
    src,     \* source files: file -> [data, mtime]
    now,     \* wall clock (stamps blobs written by copyFile)
    ops,     \* number of publisher operations run so far
    edits,   \* number of source edits so far
    last,    \* the last publisher operation and its outcome
    writer,  \* the publisher process inside one add: its position and locals
    reader,  \* the server process inside one request: its position and locals
    site,    \* the directory served over HTTP: path -> [kind, mtime, size, sum]
    conn,    \* one HTTP exchange: the request, the handler's position, the response
    calc     \* one application of a pure function: its input and its result

vars == <<ct, enc, gc, blobs, src, now, ops, edits, last, writer, reader,
          site, conn, calc>>

----------------------------------------------------------------------------
(* Bounds of the model *)

MaxOps == 3
MaxEdits == 1
MaxTime == 1

PageExtra == 3

(* Program constants *)

sqliteTreeConfigBatchSize == 32
getEncodedLimit == 128
EmptyStr == 0

----------------------------------------------------------------------------
(* Universes *)

\* logical paths (cleaned); integers so that ORDER BY name is <
Names == {1, 2}
\* destinations as typed: -p is an uncleaned spelling of p ("./1" for "1")
DstInputs == {EmptyStr, 1, 2, -1}
\* byte contents of files; Size gives their length
Contents == {1, 2, 3}

\* source files: [base, ext]; ext is the list of suffixes appended to base
File(b, e) == [base |-> b, ext |-> e]
Ff == File("f", <<>>)
Fg == File("g", <<>>)
Ffgz == File("f", <<".gz">>)
SrcFiles == {Ff, Fg, Ffgz}
\* a path at which there is no file
Fh == File("h", <<>>)
\* fs.ReadDir order of the source directory (sorted by file name)
ReadDirOrder == <<Ff, Ffgz, Fg>>

Size(c) == IF c = 3 THEN 2 ELSE 1

----------------------------------------------------------------------------
(* Helpers *)

Min(a, b) == IF a < b THEN a ELSE b

Put(f, k, v) == [x \in (DOMAIN f) \cup {k} |-> IF x = k THEN v ELSE f[x]]

Drop(f, k) == [x \in (DOMAIN f) \ {k} |-> f[x]]

\* the i-th element is the one with i - 1 smaller elements
SortedSeq(s) ==
    [i \in 1..Cardinality(s) |-> CHOOSE x \in s : Cardinality({y \in s : y < x}) = i - 1]

Take(q, n) == SubSeq(q, 1, Min(n, Len(q)))

\* the stores as a command sees them; ro: the tree db is opened with
\* mode=ro, and every statement that writes fails
Store == [ct |-> ct, enc |-> enc, gc |-> gc, blobs |-> blobs, ro |-> FALSE, stuck |-> {}]

ReadOnlyStore == [Store EXCEPT !.ro = TRUE]

EmptyFn == [x \in {} |-> 0]

----------------------------------------------------------------------------
(* A publisher-side result: the stores after the call and whether it failed *)

Ok(S) == [S |-> S, err |-> FALSE]

Fail(S) == [S |-> S, err |-> TRUE]

----------------------------------------------------------------------------
(* treedbmodel: repo.  Every statement runs on r.db directly: no transaction *)
(* spans the statements of one method.                                     *)

nameExists(S, name) == name \in DOMAIN S.ct

contentExists(S, hash) ==
    IF \E n \in DOMAIN S.ct : S.ct[n].hash = hash THEN TRUE
    ELSE \E r \in S.enc : r.hash = hash

\* GetModelAll / GetModelGtName: ORDER BY name LIMIT limit OFFSET 0
repoList(S, limit, after) ==
    IF after = EmptyStr THEN Take(SortedSeq(DOMAIN S.ct), limit)
    ELSE Take(SortedSeq({n \in DOMAIN S.ct : n > after}), limit)

\* GetEncodedByName: WHERE name = $ ORDER BY ord LIMIT limit OFFSET 0
GetEncodedByName(S, name, limit) ==
    LET rows == {r \in S.enc : r.name = name}
        ords == SortedSeq({r.ord : r \in rows})
    IN Take([i \in 1..Len(ords) |-> CHOOSE r \in rows : r.ord = ords[i]], limit)

\* GetModelByName: the content row of name, or no row
GetModelByName(S, name) ==
    IF name \in DOMAIN S.ct
    THEN [found |-> TRUE, name |-> name, hash |-> S.ct[name].hash, ctype |-> S.ct[name].ctype]
    ELSE [found |-> FALSE, name |-> name, hash |-> EmptyStr, ctype |-> ""]

repoGet(S, name) ==
    LET m == GetModelByName(S, name)
    IN IF ~m.found THEN [found |-> FALSE, m |-> m, enc |-> <<>>]
       ELSE [found |-> TRUE, m |-> m, enc |-> GetEncodedByName(S, m.name, getEncodedLimit)]

\* INSERT INTO gc SELECT hash FROM encoded WHERE name = $ ON CONFLICT DO NOTHING
queueGCEncoded(S, name) ==
    [S EXCEPT !.gc = @ \cup {r.hash : r \in {x \in S.enc : x.name = name}}]

\* a statement that queues nothing
queueGCPrimaryNothing(S, name) == S

\* INSERT INTO gc SELECT hash FROM content WHERE name = $ ON CONFLICT DO NOTHING
queueGCPrimary(S, name) ==
    [S EXCEPT !.gc = @ \cup (IF name \in DOMAIN S.ct THEN {S.ct[name].hash} ELSE {})]

queueGCContent(S, name) == queueGCPrimary(queueGCEncoded(S, name), name)

queueGC(S, name) == queueGCContent(S, name)

delEncoded(S, name) == [S EXCEPT !.enc = {r \in @ : r.name # name}]

\* INSERT ... VALUES (..), (..) ON CONFLICT DO NOTHING: a row that collides
\* with PRIMARY KEY (name, code) or UNIQUE (name, ord) is skipped
RECURSIVE InsertBulk(_, _)
InsertBulk(rows, models) ==
    IF models = <<>> THEN rows
    ELSE LET m == Head(models)
             conflict == \E r \in rows :
                            r.name = m.name /\ (r.code = m.code \/ r.ord = m.ord)
         IN InsertBulk(IF conflict THEN rows ELSE rows \cup {m}, Tail(models))

addEncoded(S, m, encl) ==
    IF Len(encl) = 0 THEN S
    ELSE LET rows == [n \in 1..Len(encl) |->
                         [name |-> m.name, code |-> encl[n].code,
                          ord |-> n, hash |-> encl[n].hash]]
         IN [S EXCEPT !.enc = InsertBulk(@, rows)]

\* INSERT INTO content: fails on the PRIMARY KEY when the name has a row
ctInsert(S, m) ==
    IF m.name \in DOMAIN S.ct THEN Fail(S)
    ELSE Ok([S EXCEPT !.ct = Put(@, m.name, [hash |-> m.hash, ctype |-> m.ctype])])

\* UPDATE content SET (hash, contenttype) WHERE name = $
UpdctPropsByName(S, m, name) ==
    IF name \in DOMAIN S.ct
    THEN [S EXCEPT !.ct = Put(@, name, [hash |-> m.hash, ctype |-> m.ctype])]
    ELSE S

ctDelByName(S, name) == [S EXCEPT !.ct = Drop(@, name)]

repoInsert(S, m, encl) ==
    LET s1 == delEncoded(queueGC(S, m.name), m.name)
        r2 == ctInsert(s1, m)
    IN IF r2.err THEN r2 ELSE Ok(addEncoded(r2.S, m, encl))

repoUpdate(S, m, encl) ==
    LET s1 == delEncoded(queueGC(S, m.name), m.name)
        s2 == UpdctPropsByName(s1, m, m.name)
    IN Ok(addEncoded(s2, m, encl))

repoDelete(S, name) ==
    Ok(ctDelByName(delEncoded(queueGC(S, name), name), name))

\* GetGCCandidateAll: ORDER BY hash LIMIT limit OFFSET 0
ListGCCandidates(S, limit) == Take(SortedSeq(S.gc), limit)

\* DELETE FROM gc WHERE hash = $: an error on a read-only handle
DequeueGCCandidate(S, hash) ==
    IF S.ro THEN Fail(S) ELSE Ok([S EXCEPT !.gc = @ \ {hash}])

----------------------------------------------------------------------------
(* SQLiteTreeDB *)

\* ContentConfig of a repo.Get answer
ContentConfig(g) ==
    [hash |-> g.m.hash, ctype |-> g.m.ctype,
     encoded |-> [i \in 1..Len(g.enc) |-> [code |-> g.enc[i].code, hash |-> g.enc[i].hash]]]

NoConfig == [hash |-> EmptyStr, ctype |-> "", encoded |-> <<>>]

\* found = FALSE is ErrNotFound
dbGet(S, name) ==
    LET g == repoGet(S, name)
    IN IF ~g.found THEN [found |-> FALSE, cfg |-> NoConfig]
       ELSE [found |-> TRUE, cfg |-> ContentConfig(g)]

dbAdd(S, dst, cfg) ==
    LET m == [name |-> dst, hash |-> cfg.hash, ctype |-> cfg.ctype]
        encl == [n \in 1..Len(cfg.encoded) |->
                    [name |-> m.name, code |-> cfg.encoded[n].code,
                     ord |-> n, hash |-> cfg.encoded[n].hash]]
    IN IF nameExists(S, dst) THEN repoUpdate(S, m, encl) ELSE repoInsert(S, m, encl)

\* a Rm that deletes nothing
dbRmNothing(S, dst) == Ok(S)

dbRm(S, dst) == IF ~nameExists(S, dst) THEN Ok(S) ELSE repoDelete(S, dst)

\* kfs.RemoveAll(contentDir, name): removing an absent file succeeds
RemoveAll(S, name) == [S EXCEPT !.blobs = Drop(@, name)]

\* the ContentIterator the publisher hands to IterateGC: remove the blob
\* one candidate: remove its blob when no record references it, then dequeue
dequeueAfter(r1, h) == IF r1.err THEN r1 ELSE DequeueGCCandidate(r1.S, h)

\* S.stuck holds the blobs whose removal fails
gcRemoveBlob(S, hash) == IF hash \in S.stuck THEN Fail(S) ELSE Ok(RemoveAll(S, hash))

\* a step that calls the iterator without asking whether the hash is referenced
gcCandidateAlways(S, h) == dequeueAfter(gcRemoveBlob(S, h), h)

\* a loop that takes every batch for the last one
shortBatchAlways(n) == TRUE

\* len(m) < sqliteTreeConfigBatchSize: the batch was the last one
shortBatch(n) == n < sqliteTreeConfigBatchSize

gcCandidate(S, h) ==
    dequeueAfter(IF ~contentExists(S, h) THEN gcRemoveBlob(S, h) ELSE Ok(S), h)

\* the loop over one batch; r is the result so far
RECURSIVE IterateGCBatch(_, _)
IterateGCBatch(r, m) ==
    IF r.err \/ m = <<>> THEN r
    ELSE IterateGCBatch(gcCandidate(r.S, Head(m)), Tail(m))

RECURSIVE IterateGC(_)
\* after a batch of n candidates: stop on an error or a short batch
IterateGCNext(r, n) ==
    IF r.err THEN r
    ELSE IF shortBatch(n) THEN r
    ELSE IterateGC(r.S)

IterateGC(S) ==
    LET m == ListGCCandidates(S, sqliteTreeConfigBatchSize)
    IN IF Len(m) = 0 THEN Ok(S)
       ELSE IterateGCNext(IterateGCBatch(Ok(S), m), Len(m))

----------------------------------------------------------------------------
(* Tree: the publisher *)

\* path.Clean: "" is ".", "./p" is "p"
Dot == 1000

Clean(p) == IF p = EmptyStr THEN Dot ELSE IF p < 0 THEN 0 - p ELSE p

\* blake2b-512 of the bytes, base64url: one name per content
HashOf(c) == 100 + c

hashFile(f) == HashOf(src[f].data)

\* a copy that writes nothing
copyFileNothing(S, dstName, f) == S

\* O_WRONLY|O_CREATE|O_TRUNC on the final name, then io.Copy
copyFile(S, dstName, f) ==
    [S EXCEPT !.blobs = Put(@, dstName,
        [data |-> src[f].data, len |-> Size(src[f].data), mtime |-> now])]

Chtimes(S, name, mtime) ==
    [S EXCEPT !.blobs = Put(@, name, [S.blobs[name] EXCEPT !.mtime = mtime])]

FileRes(S, h, e) == [S |-> S, hash |-> h, err |-> e]

FileAct(act, h) == [act |-> act, hash |-> h]

\* what checkAndAddFileFS decides for a source file: "notfound", keep the
\* blob as it is, touch its modification time, or copy the file
fileAction(S, existingHash, f) ==
    IF f \notin DOMAIN src THEN FileAct("notfound", EmptyStr)
    ELSE
    LET srcSize == Size(src[f].data)
        srcMod == src[f].mtime
        sameSize == /\ existingHash # EmptyStr
                    /\ existingHash \in DOMAIN S.blobs
                    /\ S.blobs[existingHash].len = srcSize
    IN IF sameSize /\ ~(S.blobs[existingHash].mtime < srcMod)
       THEN FileAct("keep", existingHash)
       ELSE
       LET existingMatchesSize == sameSize
           dstName == hashFile(f)
       IN IF existingHash # EmptyStr /\ dstName = existingHash /\ existingMatchesSize
          THEN FileAct("touch", existingHash)
          ELSE IF /\ dstName \in DOMAIN S.blobs
                  /\ S.blobs[dstName].len = srcSize
                  /\ ~(S.blobs[dstName].mtime < srcMod)
          THEN FileAct("keep", dstName)
          ELSE FileAct("copy", dstName)

\* a publisher that copies every source file it is given
checkAndAddFileFSAlwaysCopy(S, existingHash, f) ==
    IF f \notin DOMAIN src THEN [S |-> S, hash |-> EmptyStr, err |-> "notfound"]
    ELSE [S |-> [S EXCEPT !.blobs = Put(@, HashOf(src[f].data),
                    [data |-> src[f].data, len |-> Size(src[f].data), mtime |-> now])],
          hash |-> HashOf(src[f].data), err |-> ""]

\* checkAndAddFileFS once it has decided d; err: "" success, "notfound"
\* ErrNotFound
applyFileAction(S, f, d) ==
    IF d.act = "notfound" THEN FileRes(S, EmptyStr, "notfound")
    ELSE IF d.act = "keep" THEN FileRes(S, d.hash, "")
    ELSE IF d.act = "touch" THEN FileRes(Chtimes(S, d.hash, src[f].mtime), d.hash, "")
    ELSE FileRes(copyFile(S, d.hash, f), d.hash, "")

checkAndAddFileFS(S, existingHash, f) ==
    applyFileAction(S, f, fileAction(S, existingHash, f))

checkAndAddFile(S, existingHash, srcName) == checkAndAddFileFS(S, existingHash, srcName)

\* codeToHash[code] of the existing record ("" when the code is not there)
codeToHash(cfg, code) ==
    LET hit == {i \in 1..Len(cfg.encoded) : cfg.encoded[i].code = code}
    IN IF hit = {} THEN EmptyStr
       ELSE cfg.encoded[CHOOSE i \in hit : \A j \in hit : j <= i].hash

\* a comparison that overlooks the content type
equalCfgNoCtype(a, b) ==
    /\ a.hash = b.hash
    /\ Len(a.encoded) = Len(b.encoded)
    /\ \A n \in 1..Len(a.encoded) : a.encoded[n] = b.encoded[n]

equalCfg(a, b) ==
    IF a.hash # b.hash THEN FALSE
    ELSE IF a.ctype # b.ctype THEN FALSE
    ELSE IF Len(a.encoded) # Len(b.encoded) THEN FALSE
    ELSE \A n \in 1..Len(a.encoded) : a.encoded[n] = b.encoded[n]

\* cfg.Encoded as built so far, with the stores and whether the loop failed
EncRes(S, encoded, err) == [S |-> S, encoded |-> encoded, err |-> err]

\* one round of the loop over the encoded files: r is what checkAndAddFile
\* returned for the file of code
appendEncoded(R, code, r) ==
    IF r.err # "" THEN EncRes(r.S, R.encoded, TRUE)
    ELSE EncRes(r.S, Append(R.encoded, [code |-> code, hash |-> r.hash]), FALSE)

\* the loop over the encoded files of Add
RECURSIVE addEncodedFiles(_, _, _)
addEncodedFiles(R, existing, encoded) ==
    IF R.err \/ encoded = <<>> THEN R
    ELSE addEncodedFiles(
            appendEncoded(R, Head(encoded).code,
                checkAndAddFile(R.S, codeToHash(existing, Head(encoded).code),
                                Head(encoded).name)),
            existing, Tail(encoded))

\* Add from the comparison with the existing record g on
addConfig(S, dst, g, cfg) ==
    IF g.found /\ equalCfg(cfg, g.cfg) THEN Ok(S) ELSE dbAdd(S, dst, cfg)

\* Add after the loop over the encoded files
addAfterEncoded(dst, ctype, g, hash, r2) ==
    IF r2.err THEN Fail(r2.S)
    ELSE addConfig(r2.S, dst, g, [hash |-> hash, ctype |-> ctype, encoded |-> r2.encoded])

\* Add after checkAndAddFile of the source file
addAfterFile(dst, ctype, encoded, g, r1) ==
    IF r1.err # "" THEN Fail(r1.S)
    ELSE addAfterEncoded(dst, ctype, g, r1.hash,
            addEncodedFiles(EncRes(r1.S, <<>>, FALSE), g.cfg, encoded))

\* Add after db.Get of the cleaned destination
addAfterGet(S, dst, ctype, srcName, encoded, g) ==
    addAfterFile(dst, ctype, encoded, g,
        checkAndAddFile(S, IF g.found THEN g.cfg.hash ELSE EmptyStr, srcName))

\* an error value: whether there is one, and the kind it is wrapped with
NoError == [failed |-> FALSE, kind |-> ""]

\* kerrors.WithMsg(nil, msg): a message and no kind
WithMsgNil == [failed |-> TRUE, kind |-> ""]

\* the argument checks at the head of Add
addArgError(dst0, encoded) ==
    IF dst0 = EmptyStr THEN WithMsgNil
    ELSE IF \E n \in 1..Len(encoded) : encoded[n].code = "" THEN WithMsgNil
    ELSE NoError

TreeAdd(S, dst0, ctype, srcName, encoded) ==
    IF addArgError(dst0, encoded).failed THEN Fail(S)
    ELSE addAfterGet(S, Clean(dst0), ctype, srcName, encoded, dbGet(S, Clean(dst0)))

RECURSIVE rmEncodedFiles(_, _)
rmEncodedFiles(S, encoded) ==
    IF encoded = <<>> THEN S
    ELSE rmEncodedFiles(RemoveAll(S, Head(encoded).hash), Tail(encoded))

rmContent(S, name, cfg) ==
    dbRm(RemoveAll(rmEncodedFiles(S, cfg.encoded), cfg.hash), name)

TreeRm(S, name0) ==
    IF name0 = EmptyStr THEN Fail(S)
    ELSE LET name == Clean(name0)
             g == dbGet(S, name)
         IN IF ~g.found THEN Fail(S) ELSE rmContent(S, name, g.cfg)

----------------------------------------------------------------------------
(* Iteration over the tree db, and the callbacks the publisher passes *)

\* state threaded through an iteration: the stores, the callback's captured
\* sets, and the error that stops it
IterState(S, dstSet) == [S |-> S, dstSet |-> dstSet, contentSet |-> {}, err |-> FALSE]

CfgHashes(cfg) == {cfg.hash} \cup {cfg.encoded[i].hash : i \in 1..Len(cfg.encoded)}

\* SyncContent's iterator: keep the handled names, remove the others
syncIterator(T, name, cfg) ==
    IF name \in T.dstSet
    THEN [T EXCEPT !.contentSet = @ \cup CfgHashes(cfg)]
    ELSE LET r == rmContent(T.S, name, cfg)
         IN [T EXCEPT !.S = r.S, !.err = r.err]

\* GCContentDir's iterator: collect every referenced hash
gcIterator(T, name, cfg) == [T EXCEPT !.contentSet = @ \cup CfgHashes(cfg)]

\* the iterator is called with the name and the record listed for it
TreeIteratorCall(tag, T, name) ==
    LET cfg == dbGet(T.S, name).cfg
    IN IF tag = "sync" THEN syncIterator(T, name, cfg) ELSE gcIterator(T, name, cfg)

RECURSIVE IteratePage(_, _, _)
IteratePage(T, m, tag) ==
    IF T.err \/ m = <<>> THEN T
    ELSE IteratePage(TreeIteratorCall(tag, T, Head(m)), Tail(m), tag)

\* an iteration that stops after its first page
IterateFirstPage(T, cursor, tag) ==
    IteratePage(T, repoList(T.S, sqliteTreeConfigBatchSize, cursor), tag)

RECURSIVE IterateFrom(_, _, _)
\* after the page m: stop on an error or a short page, else move the cursor
IterateNext(T2, m, tag) ==
    IF T2.err THEN T2
    ELSE IF Len(m) < sqliteTreeConfigBatchSize THEN T2
    ELSE IterateFrom(T2, m[Len(m)], tag)

IterateFrom(T, cursor, tag) ==
    LET m == repoList(T.S, sqliteTreeConfigBatchSize, cursor)
    IN IF Len(m) = 0 THEN T ELSE IterateNext(IteratePage(T, m, tag), m, tag)

Iterate(T, tag) == IterateFrom(T, EmptyStr, tag)

\* fs.ReadDir(contentDir, ".") and RemoveAll of every entry not in contentSet
rmSetDifference(S, contentSet) ==
    [S EXCEPT !.blobs = [h \in (DOMAIN S.blobs) \cap contentSet |-> S.blobs[h]]]

\* GCContentDir after the iteration
sweepAfterIterate(T) ==
    IF T.err THEN Fail(T.S) ELSE Ok(rmSetDifference(T.S, T.contentSet))

GCContentDir(S) == sweepAfterIterate(Iterate(IterState(S, {}), "gc"))

\* gc after the drain r of the gc queue: with full, sweep the content
\* directory as well
gcAfterDrain(r, full) ==
    IF r.err THEN r ELSE IF full THEN GCContentDir(r.S) ELSE r

GCBlobDir(S, full) == gcAfterDrain(IterateGC(S), full)

----------------------------------------------------------------------------
(* SyncContent *)

\* the path of a source file relative to the walked directory, as a name
FileName(p) == IF p = Ff THEN 1 ELSE IF p = Fg THEN 2 ELSE 3

\* path.Join(dstPrefix, p)
Join(dstPrefix, p) == IF dstPrefix = Dot THEN FileName(p) ELSE 100 * dstPrefix + FileName(p)

\* p + suffix
WithSuffix(p, suffix) == File(p.base, Append(p.ext, suffix))

\* one round of the loop over the alts: a missing alt is skipped
appendAlt(R, code, r) ==
    IF r.err = "notfound" THEN EncRes(r.S, R.encoded, FALSE) ELSE appendEncoded(R, code, r)

\* the loop over the alts of one walked file
RECURSIVE addAltFiles(_, _, _, _)
addAltFiles(R, existing, p, alts) ==
    IF R.err \/ alts = <<>> THEN R
    ELSE addAltFiles(
            appendAlt(R, Head(alts).code,
                checkAndAddFileFS(R.S, codeToHash(existing, Head(alts).code),
                                  WithSuffix(p, Head(alts).suffix))),
            existing, p, Tail(alts))

\* the walk's state after one destination: r is the outcome of its add
syncDone(T, dst, r) ==
    IF r.err THEN [T EXCEPT !.S = r.S, !.err = TRUE]
    ELSE [T EXCEPT !.S = r.S, !.dstSet = @ \cup {dst}]

\* syncContentDir on a file after the loop over its alts
syncAfterAlts(dst, ctype, g, hash, r2) ==
    IF r2.err THEN Fail(r2.S)
    ELSE addConfig(r2.S, dst, g, [hash |-> hash, ctype |-> ctype, encoded |-> r2.encoded])

\* syncContentDir on a file after checkAndAddFileFS of the file
syncAfterFile(dst, ctype, p, alts, g, r1) ==
    IF r1.err # "" THEN Fail(r1.S)
    ELSE syncAfterAlts(dst, ctype, g, r1.hash,
            addAltFiles(EncRes(r1.S, <<>>, FALSE), g.cfg, p, alts))

\* syncContentDir on a file after db.Get of its destination
syncAfterGet(S, dst, ctype, p, alts, g) ==
    syncAfterFile(dst, ctype, p, alts, g,
        checkAndAddFileFS(S, IF g.found THEN g.cfg.hash ELSE EmptyStr, p))

\* syncContentDir on one file entry p of the walked directory
syncContentFile(T, dstPrefix, ctype, match, alts, p) ==
    IF p \notin match THEN T
    ELSE syncDone(T, Join(dstPrefix, p),
            syncAfterGet(T.S, Join(dstPrefix, p), ctype, p, alts,
                         dbGet(T.S, Join(dstPrefix, p))))

\* syncContentDir on the directory: its entries in fs.ReadDir order
RECURSIVE syncContentDir(_, _, _, _, _, _)
syncContentDir(T, dstPrefix, ctype, match, alts, entries) ==
    IF T.err \/ entries = <<>> THEN T
    ELSE syncContentDir(
            IF Head(entries) \in DOMAIN src
            THEN syncContentFile(T, dstPrefix, ctype, match, alts, Head(entries))
            ELSE T,
            dstPrefix, ctype, match, alts, Tail(entries))

\* one SyncDirConfig
syncDir(T, i) ==
    IF i.exact
    THEN syncDone(T, Clean(i.dst),
            TreeAdd(T.S, Clean(i.dst), i.ctype, i.src,
                    [n \in 1..Len(i.alts) |->
                        [code |-> i.alts[n].code, name |-> i.alts[n].name]]))
    ELSE syncContentDir(T, Clean(i.dst), i.ctype, i.match, i.alts, ReadDirOrder)

RECURSIVE syncDirs(_, _)
syncDirs(T, dirs) ==
    IF T.err \/ dirs = <<>> THEN T
    ELSE syncDirs(syncDir(T, Head(dirs)), Tail(dirs))

\* SyncContent after the rmAfter iteration: the sweep of the content directory
syncSweep(T2) ==
    IF T2.err THEN [S |-> T2.S, err |-> TRUE, dstSet |-> T2.dstSet]
    ELSE [S |-> rmSetDifference(T2.S, T2.contentSet), err |-> FALSE,
          dstSet |-> T2.dstSet]

\* SyncContent after the loop over cfg.Dirs
syncAfterDirs(T1, rmAfter) ==
    IF T1.err \/ ~rmAfter THEN [S |-> T1.S, err |-> T1.err, dstSet |-> T1.dstSet]
    ELSE syncSweep(Iterate(T1, "sync"))

\* the check of every alt code at the head of SyncContent
syncArgError(cfg) ==
    IF \E d \in 1..Len(cfg) : \E j \in 1..Len(cfg[d].alts) : cfg[d].alts[j].code = ""
    THEN WithMsgNil
    ELSE NoError

\* the result carries dstSet, the set of handled destinations
SyncContent(S, cfg, rmAfter) ==
    IF syncArgError(cfg).failed
    THEN [S |-> S, err |-> TRUE, dstSet |-> {}]
    ELSE syncAfterDirs(syncDirs(IterState(S, {}), cfg), rmAfter)

----------------------------------------------------------------------------
(* Inputs of the publisher commands *)

Enc(code, name) == [code |-> code, name |-> name]

\* encoded lists of tree add: none, one, two codes in order, a repeated code
AddEncLists ==
    { <<>>,
      <<Enc("gz", Ffgz)>>,
      <<Enc("gz", Ffgz), Enc("br", Fg)>>,
      <<Enc("gz", Ffgz), Enc("gz", Fg)>> }

AddInput(dst, ctype, s, e) == [dst |-> dst, ctype |-> ctype, src |-> s, enc |-> e]

\* (content type, encoded list) pairs of tree add
AddShapes ==
    { <<"text/a", <<>>>>, <<"text/b", <<>>>> }
    \cup {<<"text/a", e>> : e \in AddEncLists}

AddInputs ==
    {AddInput(d, sh[1], s, sh[2]) : d \in Names, s \in {Ff, Fg}, sh \in AddShapes}
    \cup {AddInput(d, "text/a", Ff, <<>>) : d \in DstInputs \ Names}
    \cup {AddInput(2, "text/a", Ff, <<Enc("gz", Fh)>>)}

Alt(code, suffix, name) == [code |-> code, suffix |-> suffix, name |-> name]

ExactDir(dst, ctype, s, alts) ==
    [dst |-> dst, ctype |-> ctype, exact |-> TRUE, src |-> s, match |-> {}, alts |-> alts]

GlobDir(dst, ctype, match, alts) ==
    [dst |-> dst, ctype |-> ctype, exact |-> FALSE, src |-> Ff, match |-> match, alts |-> alts]

SyncCfgs ==
    { <<>>,
      <<ExactDir(-1, "text/a", Ff, <<Alt("gz", "", Ffgz)>>)>>,
      <<ExactDir(1, "text/a", Ff, <<>>), ExactDir(2, "text/a", Fg, <<>>)>>,
      <<GlobDir(EmptyStr, "text/b", {Ff, Fg}, <<Alt("gz", ".gz", Ff)>>)>> }

\* edits of the source tree: same size and back-dated, same size and newer,
\* touched only, another size
SrcEdits == {<<Ff, 2, 0>>, <<Ff, 2, MaxTime>>, <<Ff, 1, MaxTime>>, <<Ff, 3, MaxTime>>}

NoPrior == [found |-> FALSE, cfg |-> NoConfig]

\* the record of the last publisher command: its input, whether it succeeded,
\* the number of records a sync found or of blobs a gc found, the record an
\* add found at its destination
Op(op, arg, ok, n, prior) ==
    [op |-> op, arg |-> arg, ok |-> ok, n |-> n, prior |-> prior]

NoOp == Op("none", <<>>, TRUE, 0, NoPrior)

\* the publisher outside an add
WriterIdle ==
    [pc |-> "idle", in |-> AddInput(EmptyStr, "", Ff, <<>>), dst |-> EmptyStr,
     prior |-> NoPrior, pos |-> 0, hash |-> EmptyStr, acc |-> <<>>,
     copy |-> EmptyStr, update |-> FALSE]

NoBlob == [exists |-> FALSE, data |-> 0, len |-> 0]

\* the server outside a request
ReaderIdle ==
    [pc |-> "idle", name |-> EmptyStr, m |-> GetModelByName([ct |-> EmptyFn], EmptyStr),
     res |-> NoPrior, versions |-> {}, seen |-> NoBlob]

----------------------------------------------------------------------------
(* The serialised publisher, and the environment that edits the sources *)

SrcFile(c, m) == [data |-> c, mtime |-> m]

\* the publisher serves nothing: no served directory, no exchange, no call
NoSite == <<>>
ConnIdle == [pc |-> "idle"]
CalcIdle == [fn |-> "idle"]

Init ==
    /\ ct = EmptyFn
    /\ enc = {}
    /\ gc = {}
    /\ blobs = EmptyFn
    /\ \E cg \in {1, 2} :
          src = [f \in SrcFiles |->
                    IF f = Ff THEN SrcFile(1, 0)
                    ELSE IF f = Fg THEN SrcFile(cg, 0) ELSE SrcFile(3, 0)]
    /\ now = 0
    /\ ops = 0
    /\ edits = 0
    /\ last = NoOp
    /\ writer = WriterIdle
    /\ reader = ReaderIdle
    /\ site = NoSite
    /\ conn = ConnIdle
    /\ calc = CalcIdle

SetStore(S) ==
    /\ ct' = S.ct
    /\ enc' = S.enc
    /\ gc' = S.gc
    /\ blobs' = S.blobs

DoAdd(in) ==
    /\ ops < MaxOps
    /\ \E r \in {TreeAdd(Store, in.dst, in.ctype, in.src, in.enc)} :
          /\ SetStore(r.S)
          /\ last' = Op("add", in, ~r.err, 0, dbGet(Store, Clean(in.dst)))
    /\ ops' = ops + 1
    /\ UNCHANGED <<src, now, edits, writer, reader, site, conn, calc>>

DoRm(name) ==
    /\ ops < MaxOps
    /\ \E r \in {TreeRm(Store, name)} :
          /\ SetStore(r.S)
          /\ last' = Op("rm", name, ~r.err, 0, NoPrior)
    /\ ops' = ops + 1
    /\ UNCHANGED <<src, now, edits, writer, reader, site, conn, calc>>

DoSync(cfg, rmAfter) ==
    /\ ops < MaxOps
    /\ \E r \in {SyncContent(Store, cfg, rmAfter)} :
          /\ SetStore(r.S)
          /\ last' = Op("sync", [cfg |-> cfg, rmAfter |-> rmAfter], ~r.err,
                         Cardinality(DOMAIN ct), NoPrior)
    /\ ops' = ops + 1
    /\ UNCHANGED <<src, now, edits, writer, reader, site, conn, calc>>

DoGC(full) ==
    /\ ops < MaxOps
    /\ \E r \in {GCBlobDir(ReadOnlyStore, full)} :
          /\ SetStore(r.S)
          /\ last' = Op("gc", full, ~r.err, Cardinality(DOMAIN blobs), NoPrior)
    /\ ops' = ops + 1
    /\ UNCHANGED <<src, now, edits, writer, reader, site, conn, calc>>

\* tree gc of the revision whose Tree has GCContentDir: the sweep alone
DoGCContentDir ==
    /\ ops < MaxOps
    /\ \E r \in {GCContentDir(ReadOnlyStore)} :
          /\ SetStore(r.S)
          /\ last' = Op("gcContentDir", TRUE, ~r.err, Cardinality(DOMAIN blobs), NoPrior)
    /\ ops' = ops + 1
    /\ UNCHANGED <<src, now, edits, writer, reader, site, conn, calc>>

\* the operator rewrites, touches, back-dates or post-dates a source file
EditSrc(f, c, m) ==
    /\ edits < MaxEdits
    /\ src' = Put(src, f, SrcFile(c, m))
    /\ src' # src
    /\ edits' = edits + 1
    /\ last' = NoOp
    /\ UNCHANGED <<ct, enc, gc, blobs, now, ops, writer, reader, site, conn, calc>>

Tick ==
    /\ now < MaxTime
    /\ now' = now + 1
    /\ UNCHANGED <<ct, enc, gc, blobs, src, ops, edits, last, writer, reader, site, conn, calc>>

Next ==
    \/ \E in \in AddInputs : DoAdd(in)
    \/ \E name \in DstInputs : DoRm(name)
    \/ \E cfg \in SyncCfgs, rmAfter \in BOOLEAN : DoSync(cfg, rmAfter)
    \/ \E full \in BOOLEAN : DoGC(full)
    \/ DoGCContentDir
    \/ \E e \in SrcEdits : EditSrc(e[1], e[2], e[3])
    \/ Tick

Spec == Init /\ [][Next]_vars

----------------------------------------------------------------------------
(* The publisher on a tree db of more than one page of records *)

\* the numbers of records the tree db starts with: around one page, two
\* pages, and more
PageSizes ==
    {sqliteTreeConfigBatchSize - 1, sqliteTreeConfigBatchSize,
     sqliteTreeConfigBatchSize + 1, 2 * sqliteTreeConfigBatchSize,
     2 * sqliteTreeConfigBatchSize + PageExtra}

\* destinations on the first page, at its end, and on the later pages
PageDsts ==
    {1, sqliteTreeConfigBatchSize, sqliteTreeConfigBatchSize + 1,
     2 * sqliteTreeConfigBatchSize + 1}

PageCfgs ==
    {<<>>}
    \cup {<<ExactDir(d, "text/a", Ff, <<>>)>> : d \in PageDsts}
    \cup {<<ExactDir(d1, "text/a", Ff, <<>>), ExactDir(d2, "text/b", Fg, <<>>)>> :
            d1 \in PageDsts, d2 \in {sqliteTreeConfigBatchSize, 2 * sqliteTreeConfigBatchSize + 1}}

\* the stores after add(n, f) for the odd and add(n, g) for the even names
InitPage ==
    /\ \E k \in PageSizes :
          /\ ct = [n \in 1..k |-> [hash |-> HashOf(2 - (n % 2)), ctype |-> "text/a"]]
          /\ blobs = [h \in {HashOf(2 - (n % 2)) : n \in 1..k} |->
                        [data |-> h - HashOf(0), len |-> Size(h - HashOf(0)), mtime |-> 0]]
    /\ enc = {}
    /\ gc = {}
    /\ src = [f \in SrcFiles |->
                 IF f = Ff THEN SrcFile(1, 0)
                 ELSE IF f = Fg THEN SrcFile(2, 0) ELSE SrcFile(3, 0)]
    /\ now = 0
    /\ ops = 0
    /\ edits = 0
    /\ last = NoOp
    /\ writer = WriterIdle
    /\ reader = ReaderIdle
    /\ site = NoSite
    /\ conn = ConnIdle
    /\ calc = CalcIdle

NextPage ==
    \/ \E cfg \in PageCfgs, rmAfter \in BOOLEAN : DoSync(cfg, rmAfter)
    \/ \E name \in PageDsts : DoRm(name)

SpecPage == InitPage /\ [][NextPage]_vars

----------------------------------------------------------------------------
(* The publisher and the server as two processes on the same tree db and   *)
(* content directory: the file system calls and sql statements of one add  *)
(* interleave with those of one request.                                   *)

ConcAddInputs ==
    { AddInput(1, "text/a", Ff, <<>>),
      AddInput(1, "text/b", Ff, <<Enc("gz", Ffgz)>>),
      AddInput(1, "text/a", Fg, <<Enc("br", Ffgz)>>),
      AddInput(2, "text/a", Ff, <<>>) }

\* the source file of position pos of an add: 0 is src, n the n-th encoded
FileAt(in, pos) == IF pos = 0 THEN in.src ELSE in.enc[pos].name

\* the existingHash Add passes for that position
ExistingAt(prior, in, pos) ==
    IF pos = 0 THEN (IF prior.found THEN prior.cfg.hash ELSE EmptyStr)
    ELSE codeToHash(prior.cfg, in.enc[pos].code)

WriterCfg(w) == [hash |-> w.hash, ctype |-> w.in.ctype, encoded |-> w.acc]

\* Add after checkAndAddFile returned h for position w.pos: the next file,
\* or after the last one the comparison with the existing record
AfterFile(w, h) ==
    LET w1 == IF w.pos = 0 THEN [w EXCEPT !.hash = h, !.copy = EmptyStr]
              ELSE [w EXCEPT !.acc = Append(@, [code |-> w.in.enc[w.pos].code, hash |-> h]),
                             !.copy = EmptyStr]
    IN IF w.pos < Len(w.in.enc) THEN [w1 EXCEPT !.pc = "file", !.pos = @ + 1]
       ELSE IF w1.prior.found /\ equalCfg(WriterCfg(w1), w1.prior.cfg) THEN WriterIdle
       ELSE [w1 EXCEPT !.pc = "exists"]

\* the model row SQLiteTreeDB.Add builds
WriterModel(w) == [name |-> w.dst, hash |-> w.hash, ctype |-> w.in.ctype]

\* Tree.Add up to t.db.Get
AddBegin(in) ==
    /\ writer.pc = "idle"
    /\ ops < MaxOps
    /\ in.dst # EmptyStr
    /\ \A n \in 1..Len(in.enc) : in.enc[n].code # ""
    /\ writer' = [WriterIdle EXCEPT !.pc = "file", !.in = in, !.dst = Clean(in.dst),
                                    !.prior = dbGet(Store, Clean(in.dst))]
    /\ ops' = ops + 1
    /\ UNCHANGED <<ct, enc, gc, blobs, src, now, edits, last, reader, site, conn, calc>>

\* checkAndAddFileFS up to the open of copyFile, which creates or truncates
\* the blob under its final name
AddFile ==
    /\ writer.pc = "file"
    /\ LET f == FileAt(writer.in, writer.pos)
           d == fileAction(Store, ExistingAt(writer.prior, writer.in, writer.pos), f)
       IN IF d.act = "notfound" THEN writer' = WriterIdle /\ blobs' = blobs
          ELSE IF d.act = "keep" THEN writer' = AfterFile(writer, d.hash) /\ blobs' = blobs
          ELSE IF d.act = "touch"
          THEN /\ writer' = AfterFile(writer, d.hash)
               /\ blobs' = Chtimes(Store, d.hash, src[f].mtime).blobs
          ELSE /\ writer' = [writer EXCEPT !.pc = "copy", !.copy = d.hash]
               /\ blobs' = Put(blobs, d.hash, [data |-> src[f].data, len |-> 0, mtime |-> now])
    /\ UNCHANGED <<ct, enc, gc, src, now, ops, edits, last, reader, site, conn, calc>>

\* io.Copy of copyFile, one write at a time, and the close after the last
AddCopy ==
    /\ writer.pc = "copy"
    /\ LET b == blobs[writer.copy]
           n == b.len + 1
       IN /\ blobs' = Put(blobs, writer.copy, [b EXCEPT !.len = n, !.mtime = now])
          /\ writer' = IF n = Size(b.data) THEN AfterFile(writer, writer.copy) ELSE writer
    /\ UNCHANGED <<ct, enc, gc, src, now, ops, edits, last, reader, site, conn, calc>>

\* the complete record the add in progress is writing
WriterRecord(w) == [found |-> TRUE, cfg |-> WriterCfg(w)]

\* SQLiteTreeDB.Add: repo.Exists.  From here on the add writes its record:
\* for a request in flight for the same name the new record is a complete
\* version as well
AddExists ==
    /\ writer.pc = "exists"
    /\ writer' = [writer EXCEPT !.pc = "queueGCEncoded", !.update = nameExists(Store, writer.dst)]
    /\ reader' = IF reader.pc \in {"model", "encoded"} /\ reader.name = writer.dst
                 THEN [reader EXCEPT !.versions = @ \cup {WriterRecord(writer)}]
                 ELSE reader
    /\ UNCHANGED <<ct, enc, gc, blobs, src, now, ops, edits, last, site, conn, calc>>

\* repo.Insert / repo.Update: first statement of queueGCContent
AddQueueGCEncoded ==
    /\ writer.pc = "queueGCEncoded"
    /\ gc' = queueGCEncoded(Store, writer.dst).gc
    /\ writer' = [writer EXCEPT !.pc = "queueGCPrimary"]
    /\ UNCHANGED <<ct, enc, blobs, src, now, ops, edits, last, reader, site, conn, calc>>

\* second statement of queueGCContent
AddQueueGCPrimary ==
    /\ writer.pc = "queueGCPrimary"
    /\ gc' = queueGCPrimary(Store, writer.dst).gc
    /\ writer' = [writer EXCEPT !.pc = "delEncoded"]
    /\ UNCHANGED <<ct, enc, blobs, src, now, ops, edits, last, reader, site, conn, calc>>

AddDelEncoded ==
    /\ writer.pc = "delEncoded"
    /\ enc' = delEncoded(Store, writer.dst).enc
    /\ writer' = [writer EXCEPT !.pc = "content"]
    /\ UNCHANGED <<ct, gc, blobs, src, now, ops, edits, last, reader, site, conn, calc>>

\* ctTable.Insert of repo.Insert, UpdctPropsByName of repo.Update
AddContent ==
    /\ writer.pc = "content"
    /\ LET r == IF writer.update
                THEN Ok(UpdctPropsByName(Store, WriterModel(writer), writer.dst))
                ELSE ctInsert(Store, WriterModel(writer))
       IN /\ ct' = r.S.ct
          /\ writer' = IF r.err THEN WriterIdle ELSE [writer EXCEPT !.pc = "addEncoded"]
    /\ UNCHANGED <<enc, gc, blobs, src, now, ops, edits, last, reader, site, conn, calc>>

\* addEncoded, the last statement: the add returns
AddAddEncoded ==
    /\ writer.pc = "addEncoded"
    /\ enc' = addEncoded(Store, WriterModel(writer), writer.acc).enc
    /\ writer' = WriterIdle
    /\ UNCHANGED <<ct, gc, blobs, src, now, ops, edits, last, reader, site, conn, calc>>

\* the complete versions of the record of name: the one the last completed
\* add left and, while an add is writing name, the one it writes
Versions(name) ==
    IF writer.dst = name /\ writer.pc \in {"queueGCEncoded", "queueGCPrimary", "delEncoded", "content", "addEncoded"}
    THEN {writer.prior, WriterRecord(writer)}
    ELSE {dbGet(Store, name)}

\* the server starts get(name)
GetBegin(name) ==
    /\ reader.pc = "idle"
    /\ reader' = [ReaderIdle EXCEPT !.pc = "model", !.name = name,
                                    !.versions = Versions(name)]
    /\ UNCHANGED <<ct, enc, gc, blobs, src, now, ops, edits, last, writer, site, conn, calc>>

\* repo.Get: GetModelByName
GetModel ==
    /\ reader.pc = "model"
    /\ LET m == GetModelByName(Store, reader.name)
       IN reader' = IF m.found THEN [reader EXCEPT !.pc = "encoded", !.m = m]
                    ELSE [reader EXCEPT !.pc = "got", !.m = m, !.res = NoPrior]
    /\ UNCHANGED <<ct, enc, gc, blobs, src, now, ops, edits, last, writer, site, conn, calc>>

\* repo.Get: GetEncodedByName, and the ContentConfig SQLiteTreeDB.Get returns
GetEncoded ==
    /\ reader.pc = "encoded"
    /\ LET e == GetEncodedByName(Store, reader.m.name, getEncodedLimit)
       IN reader' = [reader EXCEPT !.pc = "got",
                        !.res = [found |-> TRUE, cfg |-> ContentConfig([m |-> reader.m, enc |-> e])]]
    /\ UNCHANGED <<ct, enc, gc, blobs, src, now, ops, edits, last, writer, site, conn, calc>>

\* what Open and Stat of a blob see
seenBlob(B, h) ==
    IF h \in DOMAIN B THEN [exists |-> TRUE, data |-> B[h].data, len |-> B[h].len]
    ELSE NoBlob

\* an Open that stamps the blob it opens
openBlobTouch(B, h) ==
    [B |-> IF h \in DOMAIN B THEN [B EXCEPT ![h].mtime = @ + 1] ELSE B,
     seen |-> seenBlob(B, h)]

\* contentSys.Open and f.Stat: the content directory after the calls, and
\* what they saw; the file is opened for reading
openBlob(B, h) == [B |-> B, seen |-> seenBlob(B, h)]

\* serveFile: open the blob of a hash of the record and stat it
OpenBlob(h) ==
    /\ reader.pc = "got"
    /\ reader.res.found
    /\ h \in CfgHashes(reader.res.cfg)
    /\ reader' = [reader EXCEPT !.pc = "opened", !.seen = openBlob(blobs, h).seen]
    /\ blobs' = openBlob(blobs, h).B
    /\ UNCHANGED <<ct, enc, gc, src, now, ops, edits, last, writer, site, conn, calc>>

\* the request ends
GetEnd ==
    /\ reader.pc \in {"got", "opened"}
    /\ reader' = ReaderIdle
    /\ UNCHANGED <<ct, enc, gc, blobs, src, now, ops, edits, last, writer, site, conn, calc>>

\* the sources change between two runs of the publisher
EditBetweenAdds(f, c, m) == writer.pc = "idle" /\ EditSrc(f, c, m)

Hashes == {HashOf(c) : c \in Contents}

NextConc ==
    \/ \E in \in ConcAddInputs : AddBegin(in)
    \/ AddFile
    \/ AddCopy
    \/ AddExists
    \/ AddQueueGCEncoded
    \/ AddQueueGCPrimary
    \/ AddDelEncoded
    \/ AddContent
    \/ AddAddEncoded
    \/ \E name \in Names : GetBegin(name)
    \/ GetModel
    \/ GetEncoded
    \/ \E h \in Hashes : OpenBlob(h)
    \/ GetEnd
    \/ \E e \in SrcEdits : EditBetweenAdds(e[1], e[2], e[3])
    \/ Tick

SpecConc == Init /\ [][NextConc]_vars

----------------------------------------------------------------------------
(* Claims *)

\* every hash a record references, as primary or as encoding
Referenced == {ct[n].hash : n \in DOMAIN ct} \cup {r.hash : r \in enc}

\* C1: after any sequence of serialised publisher operations from an empty
\* store, every hash referenced by a record (primary or encoding) names a
\* blob that exists in the Blob Store, unless the hash is in the GC queue;
\* also when a blob shared by two paths loses one of its two records.
C1_ReferencedBlobsExist ==
    \A h \in Referenced : h \in DOMAIN blobs \/ h \in gc

\* a gc has run after a record was removed whose blob another record shares:
\* the blob is gone, its hash is referenced and queued
C1_Witness ==
    /\ last.op \in {"gc", "gcContentDir"}
    /\ \E h \in Referenced : h \notin DOMAIN blobs /\ h \in gc

----------------------------------------------------------------------------
\* the destination of the last add, cleaned
LastDst == Clean(last.arg.dst)

LastAddOk == last.op = "add" /\ last.ok

\* the encodings list E of an add input, with the hash of each source file
ExpectedEncoded(in) ==
    [n \in 1..Len(in.enc) |-> [code |-> in.enc[n].code, hash |-> hashFile(in.enc[n].name)]]

ExpectedConfig(in) ==
    [hash |-> hashFile(in.src), ctype |-> in.ctype, encoded |-> ExpectedEncoded(in)]

DistinctCodes(e) == \A i, j \in 1..Len(e) : e[i].code = e[j].code => i = j

\* the size of the content a hash names
SizeOfHash(h) == Size(CHOOSE c \in Contents : HashOf(c) = h)

\* a source file at a position whose prior hash is h either still hashes to
\* h or differs in size from the content h names
SizeSafe(h, f) == h = EmptyStr \/ h = hashFile(f) \/ SizeOfHash(h) # Size(src[f].data)

AddSizeSafe(prior, in) ==
    /\ SizeSafe(IF prior.found THEN prior.cfg.hash ELSE EmptyStr, in.src)
    /\ \A n \in 1..Len(in.enc) :
          SizeSafe(codeToHash(prior.cfg, in.enc[n].code), in.enc[n].name)

OtherReferences(name, hash) ==
    \/ \E n \in DOMAIN ct : n # name /\ ct[n].hash = hash
    \/ \E r \in enc : r.name # name /\ r.hash = hash

\* the last command was an add that found a record at its destination whose
\* primary hash is not the hash of the new source, and replaced it
LastAddReplaced ==
    /\ LastAddOk
    /\ last.prior.found
    /\ last.prior.cfg.hash # hashFile(last.arg.src)
    /\ dbGet(Store, LastDst).cfg.hash = hashFile(last.arg.src)

\* C3: after add(a, src1); add(a, src2) with hash(src1) # hash(src2), once
\* the second add has returned, the src1 blob is absent from the blob store
\* if no other record references hash(src1), and present if one does.
C3_ReplacedBlobCollected ==
    LastAddReplaced =>
        (last.prior.cfg.hash \in DOMAIN blobs
            <=> OtherReferences(LastDst, last.prior.cfg.hash))

\* C4: after a successful gc(full = true), by either revision of the gc
\* command, the set of blob names in the blob store equals the set of
\* hashes referenced by records: no unreferenced blob remains and no
\* referenced blob is missing.
C4_FullGCExact ==
    (last.op \in {"gc", "gcContentDir"} /\ last.arg /\ last.ok) =>
        DOMAIN blobs = Referenced

\* the last add, repeated now on the stores it left
AddAgain == TreeAdd(Store, last.arg.dst, last.arg.ctype, last.arg.src, last.arg.enc)

\* C5 (as claimed): if add(dst, ct, s, E) succeeds and is repeated with
\* identical arguments and unchanged source files, the second call writes
\* no blob (no copy, no modification-time change), writes nothing to the
\* tree db and leaves the gc queue as it was.
C5_RepeatedAddNoOp_Claimed ==
    LastAddOk => (~AddAgain.err /\ AddAgain.S = Store)

\* no source file of the last add is newer than the blob recorded for it
BlobsNotOlderThanSources ==
    LET g == dbGet(Store, LastDst)
    IN /\ g.found
       /\ g.cfg.hash \in DOMAIN blobs
       /\ blobs[g.cfg.hash].mtime >= src[last.arg.src].mtime
       /\ \A n \in 1..Len(last.arg.enc) :
             LET h == codeToHash(g.cfg, last.arg.enc[n].code)
             IN h \in DOMAIN blobs /\ blobs[h].mtime >= src[last.arg.enc[n].name].mtime

\* C5 (amended): if add(dst, ct, s, E) with pairwise distinct codes succeeds,
\* leaves no source file with a modification time later than that of the
\* blob recorded for it, and is repeated with identical arguments and
\* unchanged source files, the second call writes no blob (no copy, no
\* modification-time change), writes nothing to the tree db and leaves the
\* gc queue as it was.
C5_RepeatedAddNoOp ==
    (LastAddOk /\ DistinctCodes(last.arg.enc) /\ BlobsNotOlderThanSources) =>
        (~AddAgain.err /\ AddAgain.S = Store)

\* an add with two encodings has returned and can be repeated
C5_Witness ==
    /\ LastAddOk
    /\ DistinctCodes(last.arg.enc)
    /\ BlobsNotOlderThanSources
    /\ Len(last.arg.enc) = 2
    /\ ~AddAgain.err

\* rm of the last add's destination, then the same add again
RmAfterAdd == TreeRm(Store, last.arg.dst)

AddRmAdd == TreeAdd(RmAfterAdd.S, last.arg.dst, last.arg.ctype, last.arg.src, last.arg.enc)

\* every blob the record at name references exists in the stores T
RecordBlobsExist(T, name) ==
    LET g == dbGet(T, name)
    IN /\ g.cfg.hash \in DOMAIN T.blobs
       /\ \A n \in 1..Len(g.cfg.encoded) : g.cfg.encoded[n].hash \in DOMAIN T.blobs

\* C10 (as claimed): for the same inputs, add(dst, ...); rm(dst);
\* add(dst, ...) leaves get(dst) returning the same record as the single
\* add(dst, ...), and every blob that record references exists afterwards.
C10_AddRmAdd_Claimed ==
    LastAddOk =>
        /\ ~RmAfterAdd.err
        /\ ~AddRmAdd.err
        /\ dbGet(AddRmAdd.S, LastDst) = dbGet(Store, LastDst)
        /\ RecordBlobsExist(AddRmAdd.S, LastDst)

\* the record the last add left holds the hash of the current bytes of every
\* source file it was given: the primary, and per stored encoding the first
\* entry of E with that code
RecordFresh ==
    LET g == dbGet(Store, LastDst)
        e == last.arg.enc
    IN /\ g.found
       /\ g.cfg.hash = hashFile(last.arg.src)
       /\ \A n \in 1..Len(g.cfg.encoded) :
             \E i \in 1..Len(e) :
                /\ e[i].code = g.cfg.encoded[n].code
                /\ \A j \in 1..(i - 1) : e[j].code # e[i].code
                /\ g.cfg.encoded[n].hash = hashFile(e[i].name)

\* C10 (amended): for the same inputs, when the first add(dst, ...) leaves a
\* record holding the hashes of the current bytes of its source files (it
\* kept no prior hash for a changed file), add(dst, ...); rm(dst);
\* add(dst, ...) leaves get(dst) returning the same record as the single
\* add(dst, ...), and every blob that record references exists afterwards.
C10_AddRmAdd ==
    (LastAddOk /\ RecordFresh) =>
        /\ ~RmAfterAdd.err
        /\ ~AddRmAdd.err
        /\ dbGet(AddRmAdd.S, LastDst) = dbGet(Store, LastDst)
        /\ RecordBlobsExist(AddRmAdd.S, LastDst)

\* an add with an encoding has returned, its primary blob is shared with
\* another record, and rm followed by the same add succeeds
C10_Witness ==
    /\ LastAddOk
    /\ RecordFresh
    /\ Len(last.arg.enc) >= 1
    /\ OtherReferences(LastDst, hashFile(last.arg.src))
    /\ ~AddRmAdd.err

\* the destinations a sync configuration names: the cleaned dst of an exact
\* entry, and dst joined with the path of every matched source file
HandledDsts(cfg) ==
    UNION {IF cfg[d].exact THEN {Clean(cfg[d].dst)}
           ELSE {Join(Clean(cfg[d].dst), p) : p \in cfg[d].match \cap DOMAIN src} :
           d \in 1..Len(cfg)}

LastSyncOk == last.op = "sync" /\ last.ok

\* the sync configurations of both publishers' runs
AllSyncCfgs == SyncCfgs \cup PageCfgs

\* C8: after a successful sync(cfg, rmAfter = true) the set of record names
\* is exactly the set of destinations this sync handled, also when the tree
\* db held more than one page (more than 32) of records and records are
\* deleted while it is iterated; sync(cfg, rmAfter = false) deletes or
\* changes no record outside the handled set.
C8_SyncRecordNames ==
    /\ (LastSyncOk /\ last.arg.rmAfter) => DOMAIN ct = HandledDsts(last.arg.cfg)
    /\ \A cfg \in AllSyncCfgs :
          LET r == SyncContent(Store, cfg, FALSE)
          IN \A n \in (DOMAIN ct) \ HandledDsts(cfg) : dbGet(r.S, n) = dbGet(Store, n)

\* a sync with rmAfter found more than two pages of records and left exactly
\* its two destinations, one of them beyond the second page
C8_Witness ==
    /\ LastSyncOk
    /\ last.arg.rmAfter
    /\ last.n > 2 * sqliteTreeConfigBatchSize
    /\ DOMAIN ct = {1, 2 * sqliteTreeConfigBatchSize + 1}
    /\ HandledDsts(last.arg.cfg) = DOMAIN ct

\* the names and contents of the blobs, without their modification times
BlobContents(b) == [h \in DOMAIN b |-> [data |-> b[h].data, len |-> b[h].len]]

\* the last sync, run again on the stores it left
SyncAgain == SyncContent(Store, last.arg.cfg, TRUE)

\* C9: running sync(cfg, rmAfter = true) twice in a row with unchanged
\* sources leaves the tree db records and the blob store (the set of blobs
\* and their contents) after the second run identical to those after the
\* first, also when a path shares a blob with another path.
C9_SyncIdempotent ==
    (LastSyncOk /\ last.arg.rmAfter) =>
        /\ ~SyncAgain.err
        /\ SyncAgain.S.ct = ct
        /\ SyncAgain.S.enc = enc
        /\ BlobContents(SyncAgain.S.blobs) = BlobContents(blobs)

\* C6: a get(name) issued concurrently with an add of name sees either the
\* complete old record or the complete new one: hash, content type and
\* encodings all of the same version.
C6_GetSeesOneVersion ==
    reader.pc = "got" => reader.res \in reader.versions

\* C7: a blob being written under name h is never observable as an empty or
\* partial file: a process that opens h sees no such file or h's complete
\* bytes, also when h already exists and is overwritten.
C7_BlobNeverPartial ==
    (reader.pc = "opened" /\ reader.seen.exists) =>
        reader.seen.len = Size(reader.seen.data)

----------------------------------------------------------------------------
\* C11: rm(dst) on a dst that has no record returns an error and leaves the
\* tree db records, the gc queue and the blob store unchanged; rm(dst) on an
\* existing record succeeds and leaves get(dst) answering not found.
C11_RmMissingOrExisting ==
    \A name \in DstInputs :
        LET r == TreeRm(Store, name)
        IN IF name # EmptyStr /\ dbGet(Store, Clean(name)).found
           THEN ~r.err /\ ~dbGet(r.S, Clean(name)).found
           ELSE r.err /\ r.S = Store

\* an rm has removed a record that had an encoding, another record remains,
\* and the same rm would now find no record
C11_Witness ==
    /\ last.op = "rm"
    /\ last.ok
    /\ gc # {}
    /\ DOMAIN ct # {}
    /\ ~dbGet(Store, Clean(last.arg)).found
    /\ TreeRm(Store, last.arg).err

----------------------------------------------------------------------------
\* the invalid adds: no dst; an empty code first, or after a valid encoding
InvalidAdds ==
    { AddInput(EmptyStr, "text/a", Ff, <<Enc("gz", Ffgz)>>),
      AddInput(1, "text/a", Ff, <<Enc("", Ffgz)>>),
      AddInput(1, "text/a", Fg, <<Enc("gz", Ffgz), Enc("", Ff)>>) }

\* the invalid syncs: an empty code in the first entry, in the second entry
\* after a valid one, and in the entry of a walked directory
InvalidSyncs ==
    { <<ExactDir(1, "text/a", Ff, <<Alt("", "", Ffgz)>>)>>,
      <<ExactDir(1, "text/a", Fg, <<Alt("gz", "", Ffgz)>>),
        ExactDir(2, "text/a", Ff, <<Alt("gz", "", Ffgz), Alt("", "", Fg)>>)>>,
      <<ExactDir(2, "text/a", Fg, <<>>),
        GlobDir(EmptyStr, "text/b", {Ff, Fg}, <<Alt("", ".gz", Ff)>>)>> }

\* nothing is written by an invalid add or sync
InvalidWritesNothing ==
    /\ \A in \in InvalidAdds :
          LET r == TreeAdd(Store, in.dst, in.ctype, in.src, in.enc)
          IN r.err /\ r.S = Store
    /\ \A cfg \in InvalidSyncs, rmAfter \in BOOLEAN :
          LET r == SyncContent(Store, cfg, rmAfter)
          IN r.err /\ r.S = Store

\* C12: add with an empty dst, and add or sync with an encoding whose code
\* is empty, fail with an error of kind INVALID_REQUEST before anything is
\* written: no blob, record or gc queue entry changes, also when the empty
\* code is not in the first encoding or the first sync entry.
C12_InvalidRejected ==
    /\ \A in \in InvalidAdds : addArgError(in.dst, in.enc).kind = "INVALID_REQUEST"
    /\ \A cfg \in InvalidSyncs : syncArgError(cfg).kind = "INVALID_REQUEST"
    /\ InvalidWritesNothing

----------------------------------------------------------------------------
(* Header values.  A string is a sequence of pieces; the pieces " ", ",",   *)
(* ";" and ":" are the characters the code looks for, every other piece    *)
(* is a run of other characters.                                           *)

MaxDirectives == 2
MaxForwarded == 3

RECURSIVE TrimLeft(_)
TrimLeft(s) == IF s # <<>> /\ Head(s) = " " THEN TrimLeft(Tail(s)) ELSE s

RECURSIVE TrimRight(_)
TrimRight(s) ==
    IF s # <<>> /\ s[Len(s)] = " " THEN TrimRight(SubSeq(s, 1, Len(s) - 1)) ELSE s

TrimSpace(s) == TrimRight(TrimLeft(s))

\* strings.Index: the first position of sep, 0 when there is none
IndexOf(s, sep) ==
    IF \E i \in 1..Len(s) : s[i] = sep
    THEN CHOOSE i \in 1..Len(s) : s[i] = sep /\ \A j \in 1..(i - 1) : s[j] # sep
    ELSE 0

RECURSIVE Split(_, _)
Split(s, sep) ==
    IF IndexOf(s, sep) = 0 THEN <<s>>
    ELSE <<SubSeq(s, 1, IndexOf(s, sep) - 1)>>
         \o Split(SubSeq(s, IndexOf(s, sep) + 1, Len(s)), sep)

\* a Cut that cuts nothing
CutKeepAll(s, sep) == s

\* the first result of strings.Cut
CutBefore(s, sep) ==
    IF IndexOf(s, sep) = 0 THEN s ELSE SubSeq(s, 1, IndexOf(s, sep) - 1)

\* a code or header token as a string
Str(c) == IF c = "" THEN <<>> ELSE <<c>>

RECURSIVE JoinSep(_, _)
JoinSep(list, sep) ==
    IF list = <<>> THEN <<>>
    ELSE IF Len(list) = 1 THEN Head(list)
    ELSE Head(list) \o <<sep>> \o JoinSep(Tail(list), sep)

\* all sequences over A of length at most n
SeqUpTo(A, n) == UNION {[1..k -> A] : k \in 0..n}

\* the set of codes of the Accept-Encoding header
encodingsSet(accept) ==
    IF TrimSpace(accept) = <<>> THEN {}
    ELSE {TrimSpace(CutBefore(Split(TrimSpace(accept), ",")[i], ";")) :
            i \in 1..Len(Split(TrimSpace(accept), ","))}

\* detectEncoding over the encodings of a content config
detectEncodingCfg(accept, cfg) ==
    IF \E i \in 1..Len(cfg.encoded) : Str(cfg.encoded[i].code) \in encodingsSet(accept)
    THEN LET i == CHOOSE i \in 1..Len(cfg.encoded) :
                    /\ Str(cfg.encoded[i].code) \in encodingsSet(accept)
                    /\ \A j \in 1..(i - 1) :
                          Str(cfg.encoded[j].code) \notin encodingsSet(accept)
         IN [hash |-> cfg.encoded[i].hash, code |-> cfg.encoded[i].code]
    ELSE [hash |-> cfg.hash, code |-> ""]

----------------------------------------------------------------------------
(* Addresses *)

\* the addresses of the requests: their text and their octets
AddrTable ==
    [t \in {"10.0.0.2", "10.0.0.3", "192.168.1.1", "172.16.0.2", "172.16.0.3", "192.169.0.1"} |->
        IF t = "10.0.0.2" THEN <<10, 0, 0, 2>>
        ELSE IF t = "10.0.0.3" THEN <<10, 0, 0, 3>>
        ELSE IF t = "192.168.1.1" THEN <<192, 168, 1, 1>>
        ELSE IF t = "172.16.0.2" THEN <<172, 16, 0, 2>>
        ELSE IF t = "172.16.0.3" THEN <<172, 16, 0, 3>>
        ELSE <<192, 169, 0, 1>>]

\* netip.ParseAddr
ParseAddr(s) ==
    IF Len(s) = 1 /\ s[1] \in DOMAIN AddrTable
    THEN [ok |-> TRUE, ip |-> AddrTable[s[1]]]
    ELSE [ok |-> FALSE, ip |-> <<>>]

\* netip.ParseAddrPort: address, colon, port
ParseAddrPort(s) ==
    IF Len(s) = 3 /\ s[2] = ":" /\ s[3] = "1234" THEN ParseAddr(<<s[1]>>)
    ELSE [ok |-> FALSE, ip |-> <<>>]

\* netip.Addr.String
AddrString(ip) == CHOOSE t \in DOMAIN AddrTable : AddrTable[t] = ip

Prefix(ip, bits) == [ip |-> ip, bits |-> bits]

\* netip.Prefix.Contains for prefixes of whole octets
Contains(prefix, ip) == \A i \in 1..(prefix.bits \div 8) : ip[i] = prefix.ip[i]

\* the configured proxies: 10.0.0.0/8 and 192.168.0.0/16
Proxies == <<Prefix(<<10, 0, 0, 0>>, 8), Prefix(<<192, 168, 0, 0>>, 16)>>

\* an ipnetsContain that trusts every address
ipnetsContainAll(ip, ipnet) == TRUE

ipnetsContain(ip, ipnet) == \E i \in 1..Len(ipnet) : Contains(ipnet[i], ip)

\* the loop of getRealIP from entry i down to the first
RECURSIVE walkForwarded(_, _, _, _, _)
walkForwarded(ipstrs, i, prev, remoteip, proxies) ==
    IF i = 0 THEN AddrString(prev)
    ELSE IF ~ParseAddr(TrimSpace(ipstrs[i])).ok THEN AddrString(remoteip)
    ELSE IF ~ipnetsContain(ParseAddr(TrimSpace(ipstrs[i])).ip, proxies)
         THEN AddrString(ParseAddr(TrimSpace(ipstrs[i])).ip)
    ELSE walkForwarded(ipstrs, i - 1, ParseAddr(TrimSpace(ipstrs[i])).ip, remoteip, proxies)

realIPOf(remoteip, xff, proxies) ==
    IF ~ipnetsContain(remoteip, proxies) THEN AddrString(remoteip)
    ELSE IF xff = <<>> THEN AddrString(remoteip)
    ELSE walkForwarded(Split(xff, ","), Len(Split(xff, ",")), remoteip, remoteip, proxies)

getRealIP(remoteAddr, xff, proxies) ==
    IF ~ParseAddrPort(TrimSpace(remoteAddr)).ok THEN ""
    ELSE realIPOf(ParseAddrPort(TrimSpace(remoteAddr)).ip, xff, proxies)

----------------------------------------------------------------------------
(* The header parsers applied to formatted inputs *)

\* one directive of Accept-Encoding: a code, an optional parameter, and
\* whether blanks surround the code
Directive(code, q, sp) == [code |-> code, q |-> q, sp |-> sp]

Directives == {Directive(c, q, sp) : c \in {"gzip", "br", "zstd"}, q \in {"", "q=0"}, sp \in BOOLEAN}

FormatDirective(d) ==
    (IF d.sp THEN <<" ", d.code, " ">> ELSE <<d.code>>)
    \o (IF d.q = "" THEN <<>> ELSE <<";", d.q>>)

FormatAccept(dirs) == JoinSep([i \in 1..Len(dirs) |-> FormatDirective(dirs[i])], ",")

AcceptInputs == SeqUpTo(Directives, MaxDirectives)

\* the content configs of the requests: hash 1 is the primary blob
CfgOf(codes) ==
    [hash |-> HashOf(1), ctype |-> "text/a",
     encoded |-> [i \in 1..Len(codes) |-> [code |-> codes[i], hash |-> HashOf(1 + i)]]]

CfgInputs == {CfgOf(codes) : codes \in {<<>>, <<"gzip">>, <<"br", "gzip">>, <<"gzip", "br">>}}

\* one X-Forwarded-For entry per text; sp puts a blank after each comma
FormatForwarded(entries, sp) ==
    JoinSep([i \in 1..Len(entries) |->
                (IF sp /\ i > 1 THEN <<" ">> ELSE <<>>) \o Str(entries[i])], ",")

ForwardedTexts == {"10.0.0.3", "192.168.1.1", "172.16.0.2", "192.169.0.1", "bogus", ""}

ForwardedInputs == SeqUpTo(ForwardedTexts, MaxForwarded)

RemoteAddrs == {<<"10.0.0.2", ":", "1234">>, <<" ", "172.16.0.3", ":", "1234">>, <<"bogus">>}

----------------------------------------------------------------------------
(* The kind of a failure of the tree db, from the driver to the status *)

\* an error is the chain of its layers, the outermost first; nil is <<>>
ErrLayer(kind) == [kind |-> kind]

\* an error of database/sql or of the driver
sqlError(code) == <<ErrLayer(code)>>

errorsIs(err, kind) == \E i \in 1..Len(err) : err[i].kind = kind

\* kerrors.WithMsg and kerrors.WithKind wrap the error in one more layer
WithMsg(err) == <<ErrLayer("")>> \o err

WithKind(err, kind) == <<ErrLayer(kind)>> \o err

\* kerrors.New with OptKind(ErrNotFound) and OptMsg("Not found"): the kind
\* and the message of the caller are not used
errWithKind(err, kind, msg) == <<ErrLayer("db.ErrNotFound")>> \o err

wrapDBErr(err, fallbackmsg) ==
    IF errorsIs(err, "sql.ErrNoRows") THEN errWithKind(err, "db.ErrNotFound", "Not found")
    ELSE IF errorsIs(err, "SQLITE_CONSTRAINT_UNIQUE")
    THEN errWithKind(err, "db.ErrUnique", "Unique constraint violated")
    ELSE errWithKind(err, "", fallbackmsg)

\* the failures a statement may meet whatever the rows are
SQLFaults == {"SQLITE_CONSTRAINT_UNIQUE", "SQLITE_BUSY", "SQLITE_CANTOPEN", "driver.ErrBadConn"}

\* sqlrow.Scan of GetModelByName: fault is "" or the failure of the query
scanModelError(S, name, fault) ==
    IF fault # "" THEN wrapDBErr(sqlError(fault), "Failed scanning row")
    ELSE IF ~GetModelByName(S, name).found
    THEN wrapDBErr(sqlError("sql.ErrNoRows"), "Failed scanning row")
    ELSE <<>>

\* QueryContext of GetEncodedByName
queryEncodedError(fault) ==
    IF fault # "" THEN wrapDBErr(sqlError(fault), "Failed executing query") ELSE <<>>

\* the error of repo.Get when the statement at meets fault
repoGetError(S, name, fault, at) ==
    IF scanModelError(S, name, IF at = "model" THEN fault ELSE "") # <<>>
    THEN WithMsg(scanModelError(S, name, IF at = "model" THEN fault ELSE ""))
    ELSE IF queryEncodedError(IF at = "encoded" THEN fault ELSE "") # <<>>
    THEN WithMsg(queryEncodedError(IF at = "encoded" THEN fault ELSE ""))
    ELSE <<>>

\* the error of SQLiteTreeDB.Get for the error of repo.Get
treeGetError(err) ==
    IF err = <<>> THEN <<>>
    ELSE IF errorsIs(err, "db.ErrNotFound") THEN WithKind(err, "ErrNotFound")
    ELSE WithMsg(err)

getErrorStatus(kind) ==
    IF kind = "ErrNotFound" THEN 404
    ELSE IF kind = "ErrInvalidReq" THEN 400
    ELSE 500

\* getErrorStatus of an error chain
errorStatus(err) ==
    getErrorStatus(IF errorsIs(err, "ErrNotFound") THEN "ErrNotFound"
                   ELSE IF errorsIs(err, "ErrInvalidReq") THEN "ErrInvalidReq"
                   ELSE "error")

\* a tree db with records for the names 1..n, each with k encodings
GetStore(n, k) ==
    [ct |-> [x \in 1..n |-> [hash |-> HashOf(x), ctype |-> "text/a"]],
     enc |-> {[name |-> x, code |-> "gz", ord |-> 1, hash |-> HashOf(x + n)] :
                 x \in IF k = 0 THEN {} ELSE 1..n},
     gc |-> {}, blobs |-> EmptyFn, ro |-> TRUE, stuck |-> {}]

GetInputs ==
    [n : 0..2, k : 0..1, name : 1..3, fault : SQLFaults \cup {""}, at : {"model", "encoded"}]

----------------------------------------------------------------------------
(* repo.Insert, repo.Update and repo.Delete when one of their statements
   fails. The statements run one after the other on the plain handle; at
   is the position of the statement that fails, 0 when none does. *)

\* the statement at position k, which is the one that fails when at = k
stmt(r, at, k, S2) == IF r.err THEN r ELSE IF at = k THEN Fail(r.S) ELSE Ok(S2)

\* ctTable.Insert at position 3: it fails when at = 3 and on the PRIMARY KEY
stmtInsert(r, at, m) == IF r.err THEN r ELSE IF at = 3 THEN Fail(r.S) ELSE ctInsert(r.S, m)

\* addEncoded at position 4: no statement runs for an empty list
stmtAddEncoded(r, at, m, encl) ==
    IF r.err THEN r
    ELSE IF at = 4 /\ Len(encl) > 0 THEN Fail(r.S)
    ELSE Ok(addEncoded(r.S, m, encl))

\* if err := r.addEncoded(...); err != nil { return nil }
swallowed(r3, r4) == IF r3.err THEN r3 ELSE Ok(r4.S)

repoInsertAt(S, m, encl, at) ==
    stmtAddEncoded(
        stmtInsert(
            stmt(stmt(Ok(S), at, 1, queueGC(S, m.name)), at, 2,
                 delEncoded(queueGC(S, m.name), m.name)),
            at, m),
        at, m, encl)

\* Update up to and with UpdctPropsByName
repoUpdateProps(S, m, at) ==
    stmt(stmt(stmt(Ok(S), at, 1, queueGC(S, m.name)), at, 2,
              delEncoded(queueGC(S, m.name), m.name)),
         at, 3, UpdctPropsByName(delEncoded(queueGC(S, m.name), m.name), m, m.name))

repoUpdateAt(S, m, encl, at) ==
    swallowed(repoUpdateProps(S, m, at),
              stmtAddEncoded(repoUpdateProps(S, m, at), at, m, encl))

repoDeleteAt(S, name, at) ==
    stmt(stmt(stmt(Ok(S), at, 1, queueGC(S, name)), at, 2,
              delEncoded(queueGC(S, name), name)),
         at, 3, ctDelByName(delEncoded(queueGC(S, name), name), name))

MaxCodes == 3

\* the codes of the encodings lists a caller passes, repeated codes included
CodeLists == SeqUpTo({"gz", "br"}, MaxCodes)

\* the encoded rows a caller passes for name: one row of a new hash for
\* each code
NewEncoded(name, codes) ==
    [i \in 1..Len(codes) |-> [name |-> name, code |-> codes[i], ord |-> i,
                              hash |-> HashOf(10 * name + i)]]

NewModel(name) == [name |-> name, hash |-> HashOf(10 * name), ctype |-> "text/b"]

\* insert for a name without a record, update and delete for one with a
\* record, as SQLiteTreeDB.Add and Rm call them
WriteInputs ==
    {in \in [op : {"insert", "update", "delete"}, n : 0..2, k : 0..1, name : 1..3,
             codes : CodeLists, at : 0..4] :
        /\ in.op = "insert" => in.name > in.n
        /\ in.op # "insert" => in.name <= in.n
        /\ in.op = "delete" => in.codes = <<>> /\ in.at < 4}

repoWrite(in) ==
    IF in.op = "insert"
    THEN repoInsertAt(GetStore(in.n, in.k), NewModel(in.name), NewEncoded(in.name, in.codes), in.at)
    ELSE IF in.op = "update"
    THEN repoUpdateAt(GetStore(in.n, in.k), NewModel(in.name), NewEncoded(in.name, in.codes), in.at)
    ELSE repoDeleteAt(GetStore(in.n, in.k), in.name, in.at)

InitParse ==
    /\ ct = EmptyFn
    /\ enc = {}
    /\ gc = {}
    /\ blobs = EmptyFn
    /\ src = [f \in SrcFiles |-> SrcFile(1, 0)]
    /\ now = 0
    /\ ops = 0
    /\ edits = 0
    /\ last = NoOp
    /\ writer = WriterIdle
    /\ reader = ReaderIdle
    /\ site = NoSite
    /\ conn = ConnIdle
    /\ \/ \E dirs \in AcceptInputs, cfg \in CfgInputs :
             calc = [fn |-> "detectEncoding", dirs |-> dirs, cfg |-> cfg, done |-> FALSE]
       \/ \E remote \in RemoteAddrs, entries \in ForwardedInputs, sp \in BOOLEAN :
             calc = [fn |-> "getRealIP", remote |-> remote, entries |-> entries,
                     sp |-> sp, done |-> FALSE]
       \/ \E in \in GetInputs :
             calc = [fn |-> "treeGet", in |-> in, done |-> FALSE]
       \/ \E in \in WriteInputs :
             calc = [fn |-> "repoWrite", in |-> in, done |-> FALSE]

ApplyDetectEncoding ==
    /\ calc.fn = "detectEncoding"
    /\ ~calc.done
    /\ calc' = [calc EXCEPT !.done = TRUE] @@
               [out |-> detectEncodingCfg(FormatAccept(calc.dirs), calc.cfg)]
    /\ UNCHANGED <<ct, enc, gc, blobs, src, now, ops, edits, last, writer, reader,
                   site, conn>>

ApplyGetRealIP ==
    /\ calc.fn = "getRealIP"
    /\ ~calc.done
    /\ calc' = [calc EXCEPT !.done = TRUE] @@
               [out |-> getRealIP(calc.remote, FormatForwarded(calc.entries, calc.sp), Proxies)]
    /\ UNCHANGED <<ct, enc, gc, blobs, src, now, ops, edits, last, writer, reader,
                   site, conn>>

\* SQLiteTreeDB.Get, and the status a handler answers for its error
ApplyTreeGet ==
    /\ calc.fn = "treeGet"
    /\ ~calc.done
    /\ \E err \in {treeGetError(repoGetError(GetStore(calc.in.n, calc.in.k), calc.in.name,
                                           calc.in.fault, calc.in.at))} :
          calc' = [calc EXCEPT !.done = TRUE] @@
                  [out |-> [err |-> err,
                            status |-> IF err = <<>> THEN 200 ELSE errorStatus(err)]]
    /\ UNCHANGED <<ct, enc, gc, blobs, src, now, ops, edits, last, writer, reader,
                   site, conn>>

\* repo.Insert, repo.Update or repo.Delete with the statement at
\* calc.in.at failing
ApplyRepoWrite ==
    /\ calc.fn = "repoWrite"
    /\ ~calc.done
    /\ \E r \in {repoWrite(calc.in)} :
          calc' = [calc EXCEPT !.done = TRUE] @@ [out |-> r]
    /\ UNCHANGED <<ct, enc, gc, blobs, src, now, ops, edits, last, writer, reader,
                   site, conn>>

NextParse ==
    \/ ApplyDetectEncoding
    \/ ApplyGetRealIP
    \/ ApplyTreeGet
    \/ ApplyRepoWrite

SpecParse == InitParse /\ [][NextParse]_vars

----------------------------------------------------------------------------
\* the codes a list of directives names
CodesOf(dirs) == {dirs[i].code : i \in 1..Len(dirs)}

\* the first encoding of the config whose code is named, else the primary
FirstAccepted(dirs, cfg) ==
    LET hits == {i \in 1..Len(cfg.encoded) : cfg.encoded[i].code \in CodesOf(dirs)}
    IN IF hits = {} THEN [hash |-> cfg.hash, code |-> ""]
       ELSE LET i == CHOOSE i \in hits : \A j \in hits : i <= j
            IN [hash |-> cfg.encoded[i].hash, code |-> cfg.encoded[i].code]

----------------------------------------------------------------------------
\* the addresses inside a trusted-proxy CIDR
TrustedTexts == {"10.0.0.2", "10.0.0.3", "192.168.1.1"}

Untrusted(entries) ==
    {i \in 1..Len(entries) : entries[i] \in (DOMAIN AddrTable) \ TrustedTexts}

Unparseable(entries) == {i \in 1..Len(entries) : entries[i] \notin DOMAIN AddrTable}

\* the address the claim names, for a parseable RemoteAddr with address remote
ExpectedRealIP(remote, entries) ==
    IF remote \notin TrustedTexts THEN remote
    ELSE IF entries = <<>> THEN remote
    ELSE IF \E i \in Unparseable(entries) : \A j \in Untrusted(entries) : j < i THEN remote
    ELSE IF Untrusted(entries) # {}
         THEN entries[CHOOSE i \in Untrusted(entries) : \A j \in Untrusted(entries) : j <= i]
    ELSE entries[1]

\* the address text of a RemoteAddr input
RemoteText(remote) == TrimSpace(remote)[1]

\* C20: getRealIP returns RemoteAddr's IP when that IP is in no trusted
\* CIDR; when it is trusted, the right-most X-Forwarded-For address that is
\* not trusted, or the left-most address if all are trusted, or RemoteAddr's
\* IP if the header is empty or an unparseable entry comes before (from the
\* right) any untrusted one.
C20_RealIP ==
    (calc.fn = "getRealIP" /\ calc.done /\ ParseAddrPort(TrimSpace(calc.remote)).ok) =>
        calc.out = ExpectedRealIP(RemoteText(calc.remote), calc.entries)

\* a trusted peer forwards three addresses, the right-most two trusted
C20_Witness ==
    /\ calc.fn = "getRealIP"
    /\ calc.done
    /\ calc.remote = <<"10.0.0.2", ":", "1234">>
    /\ calc.entries = <<"172.16.0.2", "192.168.1.1", "10.0.0.3">>
    /\ calc.sp
    /\ calc.out = "172.16.0.2"

----------------------------------------------------------------------------
(* The HTTP server over a directory.  Paths and names are strings in       *)
(* pieces; "/" is a piece, and an extension such as ".js" is one piece.    *)

MaxSiteEdits == 1

\* the text of the checksum attribute: checksumPrefix + hash + ":" + tag
setChecksumXAttr(hash, tag) == <<"v1", ":">> \o Str(hash) \o <<":">> \o Str(tag)

\* the text of a string of at most one piece
Text(s) == IF s = <<>> THEN "" ELSE s[1]

\* what readChecksumXAttr returns; err is "" when there is no error
Checksum(hash, tag, err) == [hash |-> hash, tag |-> tag, err |-> err]

\* strings.Cut(val, ":") of the attribute without its prefix
cutChecksum(val) ==
    IF IndexOf(val, ":") = 0 THEN Checksum(<<>>, <<>>, "ErrMalformedChecksum")
    ELSE Checksum(CutBefore(val, ":"), SubSeq(val, IndexOf(val, ":") + 1, Len(val)), "")

\* readChecksumXAttr of the value readXAttr returns, "" for a file without
\* the attribute
readChecksumXAttr(val) ==
    IF val = <<>> THEN Checksum(<<>>, <<>>, "")
    ELSE IF Len(val) < 2 \/ SubSeq(val, 1, 2) # <<"v1", ":">>
    THEN Checksum(<<>>, <<>>, "ErrMalformedChecksum")
    ELSE cutChecksum(SubSeq(val, 3, Len(val)))

\* a file of the served directory; xattr is the checksum extended
\* attribute as hashFile stored it for (xsum, xtag), empty when the file
\* has none (xsum = ""); rev counts the edits
Entry(kind, mtime, size, data, xsum, xtag) ==
    [kind |-> kind, mtime |-> mtime, size |-> size, data |-> data,
     xattr |-> IF xsum = "" THEN <<>> ELSE setChecksumXAttr(xsum, xtag), rev |-> 0]

\* the file with another text in its checksum attribute
WithXAttr(e, val) == [e EXCEPT !.xattr = val]

\* base64 of the 16 bytes of (mtime in ms, size)
TagText(mtime, size) ==
    IF mtime = 1 THEN (IF size = 1 THEN "t11" ELSE "t12")
    ELSE (IF size = 1 THEN "t21" ELSE "t22")

statToTag(stat) == IF stat.mtime = 0 THEN "" ELSE TagText(stat.mtime, stat.size)

\* a regular expression of a route: the names it matches
NoRegex == [kind |-> "nil", arg |-> ""]
Regex(kind, arg) == [kind |-> kind, arg |-> arg]

\* regexp.MatchString for the patterns \.js$ (suffix), ^hideme$ (exact)
\* and .{2,} (two characters or more; only "a" and "" are shorter)
MatchString(re, name) ==
    IF re.kind = "suffix" THEN name # <<>> /\ name[Len(name)] = re.arg
    ELSE IF re.kind = "exact" THEN name = <<re.arg>>
    ELSE name # <<>> /\ name # <<"a">>

Encoding(code, match, ext) == [code |-> code, match |-> match, ext |-> ext]

Route(prefix, dir, path, include, exclude, encodings, ctype, cc) ==
    [prefix |-> prefix, dir |-> dir, path |-> path, include |-> include,
     exclude |-> exclude, encodings |-> encodings, defaultContentType |-> ctype,
     cachecontrol |-> cc]

\* parseRoutes compiles include, exclude and match of directory routes only
parseRoute(r) ==
    IF r.dir THEN r
    ELSE [r EXCEPT !.include = NoRegex, !.exclude = NoRegex,
                   !.encodings = [i \in 1..Len(r.encodings) |->
                                     [r.encodings[i] EXCEPT !.match = NoRegex]]]

parseRoutes(routes) == [n \in 1..Len(routes) |-> parseRoute(routes[n])]

Gzip(match) == <<Encoding("gzip", match, ".gz")>>

\* the mounted routes: those of TestServer, a file route over a directory
\* that has encodings (/docs), and a file route without Cache-Control whose
\* file exists (/notes)
Routes ==
    parseRoutes(<<
        Route(<<"/", "static", "/">>, TRUE, <<"static">>, Regex("min2", ""),
              Regex("exact", "hideme"), Gzip(Regex("suffix", ".js")), "text/plain",
              "public, max-age=31536000, immutable"),
        Route(<<"/", "manifest", ".json">>, FALSE, <<"manifest", ".json">>, NoRegex,
              NoRegex, Gzip(NoRegex), "", "public, max-age=31536000, no-cache"),
        Route(<<"/", "bogus">>, FALSE, <<"bogus">>, NoRegex, NoRegex, <<>>, "", ""),
        Route(<<"/", "subdir">>, FALSE, <<"subdir">>, NoRegex, NoRegex, <<>>, "", ""),
        Route(<<"/", "docs">>, FALSE, <<"docs">>, NoRegex, NoRegex, Gzip(NoRegex), "",
              "public, max-age=31536000, no-cache"),
        Route(<<"/", "notes">>, FALSE, <<"notes", ".html">>, NoRegex, NoRegex,
              Gzip(Regex("suffix", ".js")), "", ""),
        Route(<<"/", "epoch">>, FALSE, <<"epoch", ".txt">>, NoRegex, NoRegex, <<>>, "",
              "public, max-age=31536000, no-cache"),
        Route(<<"/">>, FALSE, <<"index", ".html">>, NoRegex, NoRegex, Gzip(NoRegex), "",
              "public, max-age=31536000, no-cache")>>)

\* the directory of TestServer, with docs and docs.gz, notes.html, a file
\* that cannot be stat'ed, and a file whose modification time is the zero
\* time. testfile.js and notes.html have a checksum attribute taken at
\* their current tag, index.html has one taken at another tag, the
\* attribute of manifest.json has another version prefix and that of
\* test.html no separator; the other files have none
Site0 ==
    (<<"static", "/", "testfile", ".js">> :> Entry("file", 1, 1, "js", "h1", "t11"))
    @@ (<<"static", "/", "testfile", ".js", ".gz">> :> Entry("file", 1, 1, "js.gz", "", ""))
    @@ (<<"static", "/", "test", ".html">> :>
            WithXAttr(Entry("file", 1, 1, "html", "", ""), <<"v1", ":", "h5">>))
    @@ (<<"static", "/", "test", ".html", ".gz">> :> Entry("file", 1, 1, "html.gz", "", ""))
    @@ (<<"static", "/", "hideme">> :> Entry("file", 1, 1, "hidden", "", ""))
    @@ (<<"static", "/", "a">> :> Entry("file", 1, 1, "hidden a", "", ""))
    @@ (<<"static", "/", "locked", ".js">> :> Entry("denied", 1, 1, "", "", ""))
    @@ (<<"manifest", ".json">> :>
            WithXAttr(Entry("file", 1, 1, "json", "", ""), <<"v2", ":", "h4", ":", "t11">>))
    @@ (<<"manifest", ".json", ".gz">> :> Entry("file", 1, 1, "json.gz", "", ""))
    @@ (<<"index", ".html">> :> Entry("file", 1, 1, "index", "h3", "t12"))
    @@ (<<"index", ".html", ".gz">> :> Entry("file", 1, 1, "index.gz", "", ""))
    @@ (<<"subdir">> :> Entry("dir", 1, 1, "", "", ""))
    @@ (<<"docs">> :> Entry("dir", 1, 1, "", "", ""))
    @@ (<<"docs", ".gz">> :> Entry("file", 1, 1, "docs.gz", "", ""))
    @@ (<<"notes", ".html">> :> Entry("file", 1, 1, "notes", "h2", "t11"))
    @@ (<<"epoch", ".txt">> :> Entry("file", 0, 1, "epoch", "", ""))

\* the path of name inside the sub directory sub of the served directory
FullPath(sub, name) == IF sub = <<>> THEN name ELSE sub \o <<"/">> \o name

\* fs.Stat: "none" for fs.ErrNotExist, "invalid" for a name that is no
\* path, "denied" for any other error, else the kind of the file
statKind(S, p) ==
    IF p = <<>> THEN "invalid"
    ELSE IF p \notin DOMAIN S THEN "none"
    ELSE IF S[p].kind = "gone" THEN "none"
    ELSE S[p].kind

\* an error of a handler: its kind, "" when there is no error
NoErr == ""

StatusText(status) ==
    IF status = 400 THEN "Bad Request"
    ELSE IF status = 404 THEN "Not Found"
    ELSE IF status = 405 THEN "Method Not Allowed"
    ELSE "Internal Server Error"

\* a response: status 0 until WriteHeader
Response(status, hdr, body) == [status |-> status, hdr |-> hdr, body |-> body]

\* http.Error
httpError(hdr, status) ==
    Response(status,
             Put(Put(hdr, "Content-Type", <<"text/plain; charset=utf-8">>),
                 "X-Content-Type-Options", <<"nosniff">>),
             StatusText(status))

\* a writeError that deletes no header
writeErrorKeep(hdr, kind) == httpError(hdr, getErrorStatus(kind))

writeError(hdr, kind) ==
    httpError(Drop(Drop(Drop(Drop(Drop(hdr, "Cache-Control"), "Content-Encoding"),
                             "Content-Type"), "ETag"), "Vary"),
              getErrorStatus(kind))

\* the result of detectEncoding; looked is the set of paths it stat'ed
Detected(err, p, code, looked) == [err |-> err, p |-> p, code |-> code, looked |-> looked]

\* the stat of the name itself, after the loop over the encodings
detectPrimary(S, sub, name, looked) ==
    IF statKind(S, FullPath(sub, name)) = "none"
    THEN Detected("ErrNotFound", <<>>, "", looked \cup {FullPath(sub, name)})
    ELSE IF statKind(S, FullPath(sub, name)) \in {"invalid", "denied"}
    THEN Detected("error", <<>>, "", looked \cup {FullPath(sub, name)})
    ELSE IF statKind(S, FullPath(sub, name)) = "dir"
    THEN Detected("ErrInvalidReq", <<>>, "", looked \cup {FullPath(sub, name)})
    ELSE Detected(NoErr, name, "", looked \cup {FullPath(sub, name)})

\* the loop of detectEncoding from encoding i on
RECURSIVE detectFrom(_, _, _, _, _, _, _)
detectFrom(S, sub, encodings, set, name, i, looked) ==
    IF i > Len(encodings) THEN detectPrimary(S, sub, name, looked)
    ELSE IF Str(encodings[i].code) \notin set
    THEN detectFrom(S, sub, encodings, set, name, i + 1, looked)
    ELSE IF encodings[i].match # NoRegex /\ ~MatchString(encodings[i].match, name)
    THEN detectFrom(S, sub, encodings, set, name, i + 1, looked)
    ELSE IF statKind(S, FullPath(sub, name \o <<encodings[i].ext>>)) \in {"none", "dir"}
    THEN detectFrom(S, sub, encodings, set, name, i + 1,
                    looked \cup {FullPath(sub, name \o <<encodings[i].ext>>)})
    ELSE IF statKind(S, FullPath(sub, name \o <<encodings[i].ext>>)) \in {"invalid", "denied"}
    THEN Detected("error", <<>>, "", looked \cup {FullPath(sub, name \o <<encodings[i].ext>>)})
    ELSE Detected(NoErr, name \o <<encodings[i].ext>>, encodings[i].code,
                  looked \cup {FullPath(sub, name \o <<encodings[i].ext>>)})

detectEncoding(S, sub, encodings, accept, name) ==
    detectFrom(S, sub, encodings, encodingsSet(accept), name, 1, {})

defaultContentType == "application/octet-stream"

\* path.Ext
Ext(name) ==
    IF name # <<>> /\ name[Len(name)] \in {".js", ".html", ".json", ".gz"}
    THEN name[Len(name)] ELSE ""

\* mime.TypeByExtension, the built-in table
TypeByExtension(ext) ==
    IF ext = ".js" THEN "text/javascript; charset=utf-8"
    ELSE IF ext = ".html" THEN "text/html; charset=utf-8"
    ELSE IF ext = ".json" THEN "application/json"
    ELSE ""

detectContentType(name, fallbackContentType) ==
    IF TypeByExtension(Ext(name)) # "" THEN TypeByExtension(Ext(name))
    ELSE IF fallbackContentType # "" THEN fallbackContentType
    ELSE defaultContentType

\* path.Base: the pieces after the last "/"
RECURSIVE Base(_)
Base(name) == IF IndexOf(name, "/") = 0 THEN name
              ELSE Base(SubSeq(name, IndexOf(name, "/") + 1, Len(name)))

\* the checksum of the extended attribute, when it was taken at this tag
\* a checksum that is taken whatever tag it was stored with
checksumOfAnyTag(stat) ==
    IF readChecksumXAttr(stat.xattr).err # NoErr THEN ""
    ELSE Text(readChecksumXAttr(stat.xattr).hash)

checksumOf(stat) ==
    IF readChecksumXAttr(stat.xattr).err # NoErr THEN ""
    ELSE IF readChecksumXAttr(stat.xattr).tag = Str(statToTag(stat))
    THEN Text(readChecksumXAttr(stat.xattr).hash)
    ELSE ""

\* the fileConfig for what detectEncoding returned
fileConfigOf(S, sub, name, route, d) ==
    IF d.err # NoErr
    THEN [err |-> d.err, looked |-> d.looked, path |-> <<>>, basename |-> <<>>,
          ctype |-> "", encoding |-> "", checksum |-> "", tag |-> ""]
    ELSE [err |-> NoErr, looked |-> d.looked, path |-> d.p, basename |-> Base(name),
          ctype |-> detectContentType(name, route.defaultContentType),
          encoding |-> d.code,
          checksum |-> checksumOf(S[FullPath(sub, d.p)]),
          tag |-> statToTag(S[FullPath(sub, d.p)])]

getFileConfig(S, sub, accept, name, route) ==
    fileConfigOf(S, sub, name, route, detectEncoding(S, sub, route.encodings, accept, name))

calcWeakETag(tag) == <<"W/\"", tag, "\"">>

calcStrongETag(tag) == <<"\"", tag, "\"">>

\* the strong ETag of a fileConfig, "" without a checksum
strongOf(cfg) == IF cfg.checksum # "" THEN calcStrongETag(cfg.checksum) ELSE <<>>

\* the tags of If-None-Match that equal the strong or the weak ETag
matchingTags(match, cfg) ==
    {i \in 1..Len(Split(match, ",")) :
        /\ TrimSpace(Split(match, ",")[i]) # <<>>
        /\ \/ TrimSpace(Split(match, ",")[i]) = strongOf(cfg)
           \/ TrimSpace(Split(match, ",")[i]) = calcWeakETag(cfg.tag)}

firstMatchingTag(match, cfg) ==
    TrimSpace(Split(match, ",")[CHOOSE i \in matchingTags(match, cfg) :
                                    \A j \in matchingTags(match, cfg) : i <= j])

\* the headers when the route has a Cache-Control and the file a tag
etagHeaders(hdr, inm, cfg) ==
    IF TrimSpace(inm) # <<>> /\ matchingTags(TrimSpace(inm), cfg) # {}
    THEN [hdr |-> Put(hdr, "ETag", firstMatchingTag(TrimSpace(inm), cfg)),
          notModified |-> TRUE]
    ELSE IF strongOf(cfg) # <<>>
    THEN [hdr |-> Put(hdr, "ETag", strongOf(cfg)), notModified |-> FALSE]
    ELSE [hdr |-> Put(hdr, "ETag", calcWeakETag(cfg.tag)), notModified |-> FALSE]

\* the part of writeResHeaders under cachecontrol != ""
cacheHeaders(hdr, inm, cfg, cachecontrol) ==
    IF cachecontrol = "" THEN [hdr |-> hdr, notModified |-> FALSE]
    ELSE IF cfg.tag = ""
    THEN [hdr |-> Put(hdr, "Cache-Control", <<cachecontrol>>), notModified |-> FALSE]
    ELSE etagHeaders(Put(hdr, "Cache-Control", <<cachecontrol>>), inm, cfg)

\* the content headers that follow when the tags did not match
contentHeaders(h, cfg) ==
    IF h.notModified THEN h
    ELSE [hdr |-> Put(IF cfg.encoding # ""
                      THEN Put(h.hdr, "Content-Encoding", <<cfg.encoding>>)
                      ELSE h.hdr,
                      "Content-Type", <<cfg.ctype>>),
          notModified |-> FALSE]

writeResHeaders(hdr, inm, cfg, cachecontrol) ==
    contentHeaders(cacheHeaders(Put(hdr, "Vary", <<"Accept-Encoding">>), inm, cfg,
                                cachecontrol), cfg)

\* http.ServeContent on the open file: the body unless the method is HEAD
ServeContent(hdr, method, stat) ==
    Response(200, hdr, IF method = "HEAD" THEN "" ELSE stat.data)

\* a sendFile that does not compare the tags
sendErrorAnyTag(S, sub, cfg) ==
    IF statKind(S, FullPath(sub, cfg.path)) \in {"none", "invalid", "denied"} THEN "error"
    ELSE IF statKind(S, FullPath(sub, cfg.path)) = "dir" THEN "error"
    ELSE NoErr

\* the error of sendFile, where the file is opened and stat'ed again: it
\* cannot be opened, it is a directory now, or its tag has changed
sendError(S, sub, cfg) ==
    IF statKind(S, FullPath(sub, cfg.path)) \in {"none", "invalid", "denied"} THEN "error"
    ELSE IF statKind(S, FullPath(sub, cfg.path)) = "dir" THEN "error"
    ELSE IF cfg.tag # "" /\ statToTag(S[FullPath(sub, cfg.path)]) # cfg.tag THEN "error"
    ELSE NoErr

sendFile(S, sub, hdr, method, cfg) ==
    IF sendError(S, sub, cfg) # NoErr THEN writeError(hdr, sendError(S, sub, cfg))
    ELSE ServeContent(hdr, method, S[FullPath(sub, cfg.path)])

\* an exchange after the handler's first part: pc is "send" when sendFile
\* is still to run, and set holds the headers written for the 200 response
Exchange(pc, req, route, dispatched, cfg, err, res, set) ==
    [pc |-> pc, req |-> req, route |-> route, dispatched |-> dispatched, cfg |-> cfg,
     err |-> err, status |-> res.status, hdr |-> res.hdr, body |-> res.body, set |-> set]

NoCfg == [err |-> NoErr, looked |-> {}, path |-> <<>>, basename |-> <<>>,
          ctype |-> "", encoding |-> "", checksum |-> "", tag |-> ""]

\* serveFile after writeResHeaders
serveAfterHeaders(req, n, cfg, h) ==
    IF h.notModified
    THEN Exchange("done", req, n, TRUE, cfg, NoErr, Response(304, h.hdr, ""), h.hdr)
    ELSE Exchange("send", req, n, TRUE, cfg, NoErr, Response(0, h.hdr, ""), h.hdr)

\* serveFile after getFileConfig
serveAfterConfig(req, n, cfg) ==
    IF cfg.err # NoErr
    THEN Exchange("done", req, n, TRUE, cfg, cfg.err, writeError(<<>>, cfg.err), <<>>)
    ELSE serveAfterHeaders(req, n, cfg,
                           writeResHeaders(<<>>, req.inm, cfg, Routes[n].cachecontrol))

\* serveFile up to sendFile, for route n, in the directory sub
serveFile(S, sub, req, name, n) ==
    serveAfterConfig(req, n, getFileConfig(S, sub, req.accept, name, Routes[n]))

routeMatchPath(route, name) ==
    /\ route.include # NoRegex => MatchString(route.include, name)
    /\ route.exclude # NoRegex => ~MatchString(route.exclude, name)

\* http.StripPrefix
StripPrefix(prefix, path) == SubSeq(path, Len(prefix) + 1, Len(path))

serverSubdir(S, req, n) ==
    IF ~routeMatchPath(Routes[n], StripPrefix(Routes[n].prefix, req.path))
    THEN Exchange("done", req, n, TRUE, NoCfg, "ErrNotFound",
                  writeError(<<>>, "ErrNotFound"), <<>>)
    ELSE serveFile(S, Routes[n].path, req, StripPrefix(Routes[n].prefix, req.path), n)

\* a serverFile that serves the request path
fileNameFromRequest(route, urlPath) == StripPrefix(<<"/">>, urlPath)

\* the name a file route serves
fileName(route, urlPath) == route.path

serverFile(S, req, n) == serveFile(S, <<>>, req, fileName(Routes[n], req.path), n)

\* http.ServeMux: a pattern that ends in "/" matches the paths under it,
\* any other pattern matches one path
patternMatches(pattern, path) ==
    IF pattern[Len(pattern)] = "/"
    THEN Len(path) >= Len(pattern) /\ SubSeq(path, 1, Len(pattern)) = pattern
    ELSE path = pattern

\* the route of the longest matching pattern; "/" matches every path
muxRoute(path) ==
    CHOOSE n \in 1..Len(Routes) :
        /\ patternMatches(Routes[n].prefix, path)
        /\ \A m \in 1..Len(Routes) :
              patternMatches(Routes[m].prefix, path) =>
                  Len(Routes[m].prefix) <= Len(Routes[n].prefix)

muxServe(S, req, n) == IF Routes[n].dir THEN serverSubdir(S, req, n) ELSE serverFile(S, req, n)

allowedHTTPMethods == {"GET", "HEAD"}

\* a gate that lets every method through
methodAllowedAny(method) == TRUE

methodAllowed(method) == method \in allowedHTTPMethods

handleHTTP(S, req) ==
    IF ~methodAllowed(req.method)
    THEN Exchange("done", req, 0, FALSE, NoCfg, NoErr, httpError(<<>>, 405), <<>>)
    ELSE muxServe(S, req, muxRoute(req.path))

\* the directory in which route n looks its files up
SubOf(n) == IF Routes[n].dir THEN Routes[n].path ELSE <<>>

----------------------------------------------------------------------------
(* Requests, and the processes that change the served directory *)

Request(method, path, accept, inm) ==
    [method |-> method, path |-> path, accept |-> accept, inm |-> inm]

Methods == {"GET", "HEAD", "POST"}

\* clean paths, none of them a mounted directory without its slash
ReqPaths ==
    { <<"/", "static", "/", "testfile", ".js">>, <<"/", "static", "/", "test", ".html">>,
      <<"/", "static", "/", "hideme">>, <<"/", "static", "/", "a">>,
      <<"/", "static", "/", "locked", ".js">>, <<"/", "static", "/", "missing", ".js">>,
      <<"/", "manifest", ".json">>, <<"/", "bogus">>, <<"/", "subdir">>, <<"/", "docs">>,
      <<"/", "notes">>, <<"/", "epoch">>, <<"/">>, <<"/", "someotherpath">>,
      <<"/", "subdir", "/", "file", ".txt">> }

AcceptHeaders ==
    { <<>>, <<"gzip">>, <<" ", "br", ";", "q=1", ",", " ", "gzip", ";", "q=0">> }

StaleETag == <<"\"", "h9", "\"">>

IfNoneMatchHeaders ==
    { <<>>,
      calcWeakETag("t11"),
      calcStrongETag("h1"),
      calcStrongETag("h2"),
      StaleETag,
      <<" ">> \o StaleETag \o <<",", " ">> \o calcWeakETag("t11") \o <<" ">>,
      StaleETag \o <<",", ",">> \o calcStrongETag("h1") }

Requests ==
    {Request(m, p, a, i) : m \in Methods, p \in ReqPaths, a \in AcceptHeaders,
                           i \in IfNoneMatchHeaders}

\* the files another process may change while requests are served
EditPaths ==
    { <<"index", ".html">>, <<"index", ".html", ".gz">>,
      <<"static", "/", "testfile", ".js">>, <<"notes", ".html">>, <<"docs", ".gz">>,
      <<"epoch", ".txt">> }

EditKinds == {"touch", "dir", "gone"}

Edited(S) == Cardinality({p \in DOMAIN S : S[p].rev > 0})

editEntry(e, how) ==
    IF how = "touch" THEN [e EXCEPT !.mtime = 2, !.rev = 1]
    ELSE [e EXCEPT !.kind = how, !.rev = 1]

PublisherIdle ==
    /\ ct = EmptyFn
    /\ enc = {}
    /\ gc = {}
    /\ blobs = EmptyFn
    /\ src = [f \in SrcFiles |-> SrcFile(1, 0)]
    /\ now = 0
    /\ ops = 0
    /\ edits = 0
    /\ last = NoOp
    /\ writer = WriterIdle
    /\ reader = ReaderIdle

InitServe ==
    /\ PublisherIdle
    /\ site = Site0
    /\ conn = ConnIdle
    /\ calc = CalcIdle

\* Server.handleHTTP up to the call of sendFile
Receive(req) ==
    /\ conn.pc = "idle"
    /\ conn' = handleHTTP(site, req)
    /\ UNCHANGED <<ct, enc, gc, blobs, src, now, ops, edits, last, writer, reader,
                   site, calc>>

\* sendFile
SendFile ==
    /\ conn.pc = "send"
    /\ \E res \in {sendFile(site, SubOf(conn.route), conn.hdr, conn.req.method, conn.cfg)} :
          conn' = [conn EXCEPT !.pc = "done", !.status = res.status, !.hdr = res.hdr,
                               !.body = res.body,
                               !.err = sendError(site, SubOf(conn.route), conn.cfg)]
    /\ UNCHANGED <<ct, enc, gc, blobs, src, now, ops, edits, last, writer, reader,
                   site, calc>>

\* the exchange is over
Finish ==
    /\ conn.pc = "done"
    /\ conn' = ConnIdle
    /\ UNCHANGED <<ct, enc, gc, blobs, src, now, ops, edits, last, writer, reader,
                   site, calc>>

\* another process rewrites a file, replaces it by a directory, or removes it
EditSite(p, how) ==
    /\ Edited(site) < MaxSiteEdits
    /\ site[p].kind = "file"
    /\ site' = [site EXCEPT ![p] = editEntry(@, how)]
    /\ UNCHANGED <<ct, enc, gc, blobs, src, now, ops, edits, last, writer, reader,
                   conn, calc>>

NextServe ==
    \/ \E req \in Requests : Receive(req)
    \/ SendFile
    \/ Finish
    \/ \E p \in EditPaths, how \in EditKinds : EditSite(p, how)

SpecServe == InitServe /\ [][NextServe]_vars

----------------------------------------------------------------------------
\* C13: a request whose method is not GET or HEAD is answered 405 and is
\* never dispatched to a route handler (no file is stat'ed or opened),
\* whatever its path and headers; GET and HEAD requests are dispatched.
C13_MethodGate ==
    conn.pc # "idle" =>
        IF conn.req.method \in {"GET", "HEAD"} THEN conn.dispatched
        ELSE /\ conn.pc = "done"
             /\ conn.status = 405
             /\ ~conn.dispatched
             /\ conn.cfg.looked = {}
             /\ conn.cfg.path = <<>>

\* a POST for a file that exists, with headers that would select an
\* encoding and match its ETag, was answered 405
C13_Witness ==
    /\ conn.pc = "done"
    /\ conn.req = Request("POST", <<"/", "static", "/", "testfile", ".js">>, <<"gzip">>,
                          calcStrongETag("h1"))
    /\ conn.status = 405
    /\ ~conn.dispatched

----------------------------------------------------------------------------
ErrorHeaders == {"Cache-Control", "Content-Encoding", "ETag", "Vary"}

\* C14: when a route handler fails, the status is 404 for an error of kind
\* NOT_FOUND, 400 for kind INVALID_REQUEST and 500 otherwise, the response
\* has none of Cache-Control, Content-Encoding, ETag and Vary and a
\* plain-text Content-Type, also when the failure happens in the streaming
\* step after those headers were set for the 200 response.
C14_ErrorMapping ==
    (conn.pc = "done" /\ conn.err # NoErr) =>
        /\ conn.status = (IF conn.err = "ErrNotFound" THEN 404
                          ELSE IF conn.err = "ErrInvalidReq" THEN 400 ELSE 500)
        /\ ErrorHeaders \cap DOMAIN conn.hdr = {}
        /\ "Content-Type" \in DOMAIN conn.hdr
        /\ conn.hdr["Content-Type"] = <<"text/plain; charset=utf-8">>
        /\ conn.body = StatusText(conn.status)

\* sendFile failed after Vary, Cache-Control, ETag, Content-Encoding and
\* Content-Type were set, and the response is a bare 500
C14_Witness ==
    /\ conn.pc = "done"
    /\ conn.err = "error"
    /\ ErrorHeaders \cup {"Content-Type"} \subseteq DOMAIN conn.set
    /\ conn.status = 500
    /\ ErrorHeaders \cap DOMAIN conn.hdr = {}

----------------------------------------------------------------------------
\* the ETag the 200 response for a fileConfig is to carry
PreferredETag(cfg) ==
    IF cfg.checksum # "" THEN calcStrongETag(cfg.checksum) ELSE calcWeakETag(cfg.tag)

\* If-None-Match, split on commas and trimmed, names the strong or weak ETag
NamesETag(inm, cfg) ==
    \E i \in 1..Len(Split(inm, ",")) :
        \/ TrimSpace(Split(inm, ",")[i]) = calcWeakETag(cfg.tag)
        \/ cfg.checksum # "" /\ TrimSpace(Split(inm, ",")[i]) = calcStrongETag(cfg.checksum)

\* a GET that found a file to serve
GetFound == conn.pc # "idle" /\ conn.req.method = "GET" /\ conn.dispatched /\ conn.cfg.path # <<>>

HasCacheControl == Routes[conn.route].cachecontrol # ""

CacheControlAsConfigured ==
    IF HasCacheControl
    THEN "Cache-Control" \in DOMAIN conn.hdr
         /\ conn.hdr["Cache-Control"] = <<Routes[conn.route].cachecontrol>>
    ELSE "Cache-Control" \notin DOMAIN conn.hdr

NotModifiedShape ==
    /\ conn.status = 304
    /\ conn.body = ""
    /\ "Vary" \in DOMAIN conn.hdr
    /\ conn.hdr["Vary"] = <<"Accept-Encoding">>
    /\ CacheControlAsConfigured
    /\ "Content-Type" \notin DOMAIN conn.hdr
    /\ "Content-Encoding" \notin DOMAIN conn.hdr

\* C15: a GET whose If-None-Match, split on commas and trimmed, contains
\* the strong or the weak ETag of the representation that would be served
\* is answered 304 with no body, with Vary: Accept-Encoding, Cache-Control
\* and ETag as on the 200 response, and without Content-Type and
\* Content-Encoding.
C15_NotModified ==
    (GetFound /\ NamesETag(conn.req.inm, conn.cfg)) =>
        /\ NotModifiedShape
        /\ "ETag" \in DOMAIN conn.hdr
        /\ conn.hdr["ETag"] = PreferredETag(conn.cfg)

\* the same under a route with a Cache-Control, the ETag being one of the two
NotModifiedWhenCached ==
    (GetFound /\ HasCacheControl /\ NamesETag(conn.req.inm, conn.cfg)) =>
        /\ NotModifiedShape
        /\ "ETag" \in DOMAIN conn.hdr
        /\ conn.hdr["ETag"] \in {calcWeakETag(conn.cfg.tag), PreferredETag(conn.cfg)}

OkShape ==
    /\ "Vary" \in DOMAIN conn.hdr
    /\ conn.hdr["Vary"] = <<"Accept-Encoding">>
    /\ "Content-Type" \in DOMAIN conn.hdr
    /\ CacheControlAsConfigured
    /\ "Content-Encoding" \in DOMAIN conn.hdr <=> conn.cfg.encoding # ""

\* C16: every 200 response carries Vary: Accept-Encoding, a Content-Type
\* and an ETag (the strong one when available, otherwise the weak one),
\* whether or not the route configures a Cache-Control; Cache-Control is
\* present exactly when the route sets one and Content-Encoding exactly
\* when a non-primary encoding was selected.
C16_OkHeaders ==
    (conn.pc = "done" /\ conn.status = 200) =>
        /\ OkShape
        /\ "ETag" \in DOMAIN conn.hdr
        /\ conn.hdr["ETag"] = PreferredETag(conn.cfg)

\* the same with the ETag only under a route with a Cache-Control, for a
\* file that has a modification time
OkHeadersWhenCached ==
    (conn.pc = "done" /\ conn.status = 200) =>
        /\ OkShape
        /\ IF HasCacheControl /\ conn.cfg.tag # ""
           THEN "ETag" \in DOMAIN conn.hdr /\ conn.hdr["ETag"] = PreferredETag(conn.cfg)
           ELSE "ETag" \notin DOMAIN conn.hdr

----------------------------------------------------------------------------
\* the files a file route may look up: its path and the path with the
\* extension of one of its encodings
FilesOfRoute(n) ==
    {Routes[n].path}
    \cup {Routes[n].path \o <<Routes[n].encodings[i].ext>> : i \in 1..Len(Routes[n].encodings)}

\* C18: two GET requests dispatched to the same file route that differ only
\* in their path are answered from the same fixed path: no request path
\* changes which file is stat'ed or opened, or anything else of the answer.
C18_FileRouteIgnoresPath ==
    [][(conn'.pc # "idle" /\ conn'.dispatched /\ ~Routes[conn'.route].dir) =>
          /\ conn'.cfg.looked \subseteq FilesOfRoute(conn'.route)
          /\ conn'.cfg.path \in FilesOfRoute(conn'.route) \cup {<<>>}
          /\ conn.pc = "idle" =>
                \A p \in ReqPaths :
                    muxRoute(p) = conn'.route =>
                        handleHTTP(site, [conn'.req EXCEPT !.path = p])
                            = [conn' EXCEPT !.req.path = p]]_vars

\* a request for a path below a directory of the site was answered by the
\* route "/" with the index file
C18_Witness ==
    /\ conn.pc = "done"
    /\ conn.status = 200
    /\ conn.req.method = "GET"
    /\ conn.req.path = <<"/", "subdir", "/", "file", ".txt">>
    /\ Routes[conn.route].path = <<"index", ".html">>
    /\ conn.body = "index"

----------------------------------------------------------------------------
\* the path the route of the exchange resolves to
TargetOf(c) ==
    IF Routes[c.route].dir
    THEN FullPath(Routes[c.route].path, StripPrefix(Routes[c.route].prefix, c.req.path))
    ELSE Routes[c.route].path

\* C19: a GET whose route resolves to a path that is a directory on disk is
\* answered 400 with a plain-text status body and without Cache-Control,
\* Content-Encoding, ETag or Vary.
C19_DirectoryRefused ==
    (/\ conn.pc # "idle"
     /\ conn.req.method = "GET"
     /\ conn.dispatched
     /\ Edited(site) = 0
     /\ statKind(site, TargetOf(conn)) = "dir") =>
        /\ conn.pc = "done"
        /\ conn.status = 400
        /\ conn.body = StatusText(400)
        /\ ErrorHeaders \cap DOMAIN conn.hdr = {}

\* the same when no accepted encoding of the route has a file next to the
\* directory
DirectoryRefusedWithoutAlt ==
    (/\ conn.pc # "idle"
     /\ conn.req.method = "GET"
     /\ conn.dispatched
     /\ Edited(site) = 0
     /\ statKind(site, TargetOf(conn)) = "dir"
     /\ conn.cfg.path = <<>>) =>
        /\ conn.pc = "done"
        /\ conn.status = 400
        /\ conn.body = StatusText(400)
        /\ ErrorHeaders \cap DOMAIN conn.hdr = {}

----------------------------------------------------------------------------
\* C21: handling an HTTP request, whatever the request and its outcome,
\* leaves the tree db (records, encodings, gc queue) and the blob store
\* (the blobs, their contents and modification times) unchanged, and the
\* served directory as well.
C21_ServingReadOnly ==
    [][(reader' # reader \/ conn' # conn) => UNCHANGED <<ct, enc, gc, blobs, site>>]_vars

\* a request has read a record with an encoding and opened one of its blobs
C21_Witness ==
    /\ reader.pc = "opened"
    /\ reader.res.found
    /\ reader.res.cfg.encoded # <<>>
    /\ reader.seen.exists
    /\ gc # {}

----------------------------------------------------------------------------
(* IterateGC on gc queues of one, two and three batches *)

GCExtra == 3

GCSizes ==
    {0, 2, sqliteTreeConfigBatchSize - 1, sqliteTreeConfigBatchSize,
     sqliteTreeConfigBatchSize + 1, 2 * sqliteTreeConfigBatchSize,
     2 * sqliteTreeConfigBatchSize + 2, 2 * sqliteTreeConfigBatchSize + GCExtra}

\* the blobs whose removal may fail: none, or one that no record references
\* in the first, the second or the third batch
GCStuck == {{}, {HashOf(3)}, {HashOf(sqliteTreeConfigBatchSize + 1)},
            {HashOf(2 * sqliteTreeConfigBatchSize + 2)}}

\* the records of a gc input: with refs, name n (n = 1, 4, 7, ...) has the
\* primary blob of hash n and one encoding with the blob of hash n + 1
GCRecords(k, refs) ==
    IF refs THEN [n \in {m \in 1..k : m % 3 = 1} |-> [hash |-> HashOf(n), ctype |-> "text/a"]]
    ELSE EmptyFn

GCEncoded(k, refs) ==
    IF refs THEN {[name |-> n, code |-> "gz", ord |-> 1, hash |-> HashOf(n + 1)] :
                    n \in {m \in 1..k : m % 3 = 1}}
    ELSE {}

GCQueue(k) == {HashOf(n) : n \in 1..k}

GCBlobs(k) == [h \in {HashOf(n) : n \in 1..(k + 1)} |-> [data |-> 1, len |-> 1, mtime |-> 0]]

InitGC ==
    /\ \E k \in GCSizes, refs \in BOOLEAN, stuck \in GCStuck, ro \in BOOLEAN :
          /\ ct = GCRecords(k, refs)
          /\ enc = GCEncoded(k, refs)
          /\ gc = GCQueue(k)
          /\ blobs = GCBlobs(k)
          /\ calc = [fn |-> "iterateGC", k |-> k, refs |-> refs, stuck |-> stuck,
                     ro |-> ro, pc |-> "list", m |-> <<>>, n |-> 0, seen |-> {},
                     err |-> FALSE]
    /\ src = [f \in SrcFiles |-> SrcFile(1, 0)]
    /\ now = 0
    /\ ops = 0
    /\ edits = 0
    /\ last = NoOp
    /\ writer = WriterIdle
    /\ reader = ReaderIdle
    /\ site = NoSite
    /\ conn = ConnIdle

\* the handle IterateGC runs on
GCStore == [Store EXCEPT !.ro = calc.ro, !.stuck = calc.stuck]

\* the head of the loop: list the next batch; an empty batch ends the loop
GCList ==
    /\ calc.fn = "iterateGC"
    /\ calc.pc = "list"
    /\ \E m \in {ListGCCandidates(GCStore, sqliteTreeConfigBatchSize)} :
          calc' = IF Len(m) = 0 THEN [calc EXCEPT !.pc = "done"]
                  ELSE [calc EXCEPT !.pc = "each", !.m = m, !.n = Len(m)]
    /\ UNCHANGED <<ct, enc, gc, blobs, src, now, ops, edits, last, writer, reader, site, conn>>

\* where the loop goes after the candidate h that left rest of a batch of
\* n; seen collects the candidates the body went through without an error
gcAfterCandidate(r, h, rest, n) ==
    IF r.err THEN [calc EXCEPT !.pc = "done", !.err = TRUE]
    ELSE IF rest # <<>> THEN [calc EXCEPT !.m = rest, !.seen = @ \cup {h}]
    ELSE IF shortBatch(n) THEN [calc EXCEPT !.pc = "done", !.m = rest, !.seen = @ \cup {h}]
    ELSE [calc EXCEPT !.pc = "list", !.m = rest, !.seen = @ \cup {h}]

\* the body of the loop for one candidate of the batch, with the iterator
\* that removes the blob
GCEach ==
    /\ calc.fn = "iterateGC"
    /\ calc.pc = "each"
    /\ \E r \in {gcCandidate(GCStore, Head(calc.m))} :
          /\ SetStore(r.S)
          /\ calc' = gcAfterCandidate(r, Head(calc.m), Tail(calc.m), calc.n)
    /\ UNCHANGED <<src, now, ops, edits, last, writer, reader, site, conn>>

NextGC == GCList \/ GCEach

SpecGC == InitGC /\ [][NextGC]_vars /\ WF_vars(NextGC)

----------------------------------------------------------------------------
\* the hashes some record references, as primary or as encoding
ReferencedHashes == {ct[n].hash : n \in DOMAIN ct} \cup {r.hash : r \in enc}

GCDone == calc.fn = "iterateGC" /\ calc.pc = "done"

\* C22: at every point of the drain, a blob is gone only if its hash was
\* queued and no record references it as primary or as encoding; every
\* entry the loop went through is dequeued, its blob removed exactly when no
\* record references it; the records are untouched and every blob that a
\* record references is still there.
C22_DrainSparesReferenced ==
    calc.fn = "iterateGC" =>
        /\ ct = GCRecords(calc.k, calc.refs)
        /\ enc = GCEncoded(calc.k, calc.refs)
        /\ (DOMAIN GCBlobs(calc.k)) \ (DOMAIN blobs) \subseteq GCQueue(calc.k) \ ReferencedHashes
        /\ \A h \in ReferencedHashes : h \in DOMAIN blobs
        /\ calc.seen \cap gc = {}
        /\ \A h \in calc.seen : h \in DOMAIN blobs <=> h \in ReferencedHashes

\* a queue of more than two batches with referenced and unreferenced hashes
\* was drained: the referenced blobs are there and their entries are gone
C22_Witness ==
    /\ GCDone
    /\ ~calc.err
    /\ calc.seen = GCQueue(calc.k)
    /\ calc.seen \cap ReferencedHashes # {}
    /\ calc.refs
    /\ calc.k > 2 * sqliteTreeConfigBatchSize
    /\ gc = {}
    /\ DOMAIN blobs = ReferencedHashes \cup {HashOf(calc.k + 1)}

\* the entry at which a failing drain stops: the first entry on a
\* read-only handle, else the first queued blob whose removal fails
FailingEntry ==
    IF calc.ro THEN HashOf(1)
    ELSE CHOOSE h \in calc.stuck : TRUE

\* C27: on a gc queue of any size, IterateGC terminates; when it returns
\* success the queue is empty, and when the iterator or the dequeue fails
\* for an entry it returns an error and that entry and every entry not yet
\* examined remain queued.
C27_DrainTerminates ==
    (calc.fn = "iterateGC") ~>
        (/\ GCDone
         /\ ~calc.err => gc = {}
         /\ calc.err => gc = {h \in GCQueue(calc.k) : h >= FailingEntry})

\* the removal of a blob of the second batch failed: the first batch and
\* the entries before it are dequeued, the rest is still queued
C27_Witness ==
    /\ GCDone
    /\ calc.err
    /\ ~calc.ro
    /\ calc.stuck = {HashOf(sqliteTreeConfigBatchSize + 1)}
    /\ calc.k = 2 * sqliteTreeConfigBatchSize + GCExtra
    /\ gc = {HashOf(n) : n \in (sqliteTreeConfigBatchSize + 1)..calc.k}

----------------------------------------------------------------------------
\* the file sendFile opens for the exchange, and what the open finds
OpenedPath == FullPath(SubOf(conn.route), conn.cfg.path)

OpenedKind == statKind(site, OpenedPath)

OpenedTag == statToTag(site[OpenedPath])

\* the step of sendFile
SendStep == conn.pc = "send" /\ conn'.pc = "done"

\* 500 with the status text and none of the headers set for the 200
Refused == 
    /\ conn.status = 500
    /\ conn.body = StatusText(500)
    /\ \A h \in {"ETag", "Cache-Control", "Content-Encoding", "Vary"} : h \notin DOMAIN conn.hdr

\* 200 with the bytes of the file that was opened
Streamed(data) ==
    /\ conn.status = 200
    /\ conn.body = IF conn.req.method = "HEAD" THEN "" ELSE data

----------------------------------------------------------------------------
\* the checksum attribute of the planned file
StoredXAttr == site[OpenedPath].xattr

XHashes == {"h1", "h2", "h3", "h4", "h5"}

\* the attribute is the text hashFile stores for some checksum and the tag
\* the plan was made with: it is neither missing, nor malformed, nor stale
StoredCurrent == \E h \in XHashes : StoredXAttr = setChecksumXAttr(h, conn.cfg.tag)

\* a request for which getFileConfig made a plan
Planned == conn.pc # "idle" /\ conn.dispatched /\ conn.cfg.err = NoErr /\ conn.cfg.path # <<>>

SentETag == IF "ETag" \in DOMAIN conn.hdr THEN conn.hdr["ETag"] ELSE <<>>

StrongETagSent == \E h \in XHashes : SentETag = calcStrongETag(h)

\* the request is answered 200 or 304, or sendFile is still to run, or
\* sendFile refused a file that was changed after the plan
NotFailedByChecksum ==
    \/ conn.pc = "send"
    \/ conn.status \in {200, 304}
    \/ site[OpenedPath].rev > 0

\* C30: a missing, malformed or stale stored checksum never fails the
\* request and never yields a strong ETag, the file is served with the weak
\* ETag; a strong ETag is sent only when the tag of the stored checksum is
\* the tag of the file as stat'ed for the plan.
C30_WeakETagOnly ==
    Planned =>
        /\ ~StoredCurrent => NotFailedByChecksum
        /\ (~StoredCurrent /\ conn.pc = "done" /\ conn.status \in {200, 304})
              => SentETag = calcWeakETag(conn.cfg.tag)
        /\ StrongETagSent => StoredCurrent

\* the same, the weak ETag being required only where writeResHeaders sets
\* an ETag at all: under a route with a Cache-Control, for a file that has
\* a modification time
NoStrongETagFromStaleChecksum ==
    Planned =>
        /\ ~StoredCurrent => NotFailedByChecksum
        /\ (~StoredCurrent /\ conn.pc = "done" /\ conn.status \in {200, 304})
              => SentETag = (IF HasCacheControl /\ conn.cfg.tag # ""
                             THEN calcWeakETag(conn.cfg.tag) ELSE <<>>)
        /\ StrongETagSent => StoredCurrent /\ conn.cfg.checksum # ""

\* the three kinds of unusable checksum were served with the weak ETag,
\* and a current one with the strong ETag
StaleServedWeak ==
    /\ Planned /\ conn.pc = "done" /\ conn.status = 200
    /\ StoredXAttr # <<>>
    /\ readChecksumXAttr(StoredXAttr).err = NoErr
    /\ ~StoredCurrent
    /\ SentETag = calcWeakETag(conn.cfg.tag)

MalformedServedWeak ==
    /\ Planned /\ conn.pc = "done" /\ conn.status = 200
    /\ readChecksumXAttr(StoredXAttr).err # NoErr
    /\ SentETag = calcWeakETag(conn.cfg.tag)

CurrentServedStrong ==
    /\ Planned /\ conn.pc = "done" /\ conn.status = 200
    /\ StoredCurrent
    /\ StrongETagSent

----------------------------------------------------------------------------
TreeGetDone == calc.fn = "treeGet" /\ calc.done

\* the statement met a failure that is not the absence of the row
FaultMet ==
    /\ calc.in.fault # ""
    /\ calc.in.at = "encoded" => calc.in.name <= calc.in.n

\* C24: a failure of the tree db that is not row absence keeps a kind
\* distinct from NOT_FOUND through every layer: Get reports NOT_FOUND only
\* when no record for the name exists, and the status for such a failure is
\* 500, not 404.
C24_KindPreserved ==
    TreeGetDone =>
        /\ errorsIs(calc.out.err, "ErrNotFound") => calc.in.name > calc.in.n
        /\ FaultMet =>
              /\ ~errorsIs(calc.out.err, "ErrNotFound")
              /\ ~errorsIs(calc.out.err, "db.ErrNotFound")
              /\ calc.out.status = 500
        /\ (FaultMet /\ calc.in.fault = "SQLITE_CONSTRAINT_UNIQUE")
              => errorsIs(calc.out.err, "db.ErrUnique")

\* what holds of Get: an absent record is reported as NOT_FOUND and
\* answered 404, a record that is read is returned, and every failure is
\* reported as an error
AbsentIsNotFound ==
    TreeGetDone =>
        /\ (calc.in.name > calc.in.n /\ ~FaultMet)
              => errorsIs(calc.out.err, "ErrNotFound") /\ calc.out.status = 404
        /\ (calc.in.name <= calc.in.n /\ ~FaultMet) => calc.out.err = <<>>
        /\ FaultMet => calc.out.err # <<>>

----------------------------------------------------------------------------
RepoWriteDone == calc.fn = "repoWrite" /\ calc.done

\* the record and the encodings list of name in the store S
RecordOf(S, name) == dbGet(S, name)

WriteBefore == GetStore(calc.in.n, calc.in.k)

\* the statement that fails is one the operation runs
StatementFailed ==
    /\ calc.in.at > 0
    /\ calc.in.at = 4 => calc.in.codes # <<>>

\* C25: insert, update and delete are all-or-nothing. When a statement
\* fails the operation returns an error and the record and the encodings
\* list of the name are the previous ones; success is never reported after
\* the encodings could not be written; the record is never left with its
\* old encodings deleted and its hash and content type not replaced.
C25_AllOrNothing ==
    RepoWriteDone =>
        /\ StatementFailed => calc.out.err
        /\ calc.out.err => RecordOf(calc.out.S, calc.in.name) = RecordOf(WriteBefore, calc.in.name)
        /\ (calc.in.at = 4 /\ calc.in.codes # <<>>) => calc.out.err
        /\ ~ /\ RecordOf(WriteBefore, calc.in.name).found
             /\ RecordOf(WriteBefore, calc.in.name).cfg.encoded # <<>>
             /\ RecordOf(calc.out.S, calc.in.name).found
             /\ RecordOf(calc.out.S, calc.in.name).cfg.encoded = <<>>
             /\ RecordOf(calc.out.S, calc.in.name).cfg.hash
                   = RecordOf(WriteBefore, calc.in.name).cfg.hash

\* the positions of codes that hold the first occurrence of their code
FirstOccurrences(codes) ==
    {i \in 1..Len(codes) : \A j \in 1..(i - 1) : codes[j] # codes[i]}

\* the encodings list without the repetitions of a code
KeptEncoded(name, codes) ==
    [k \in 1..Cardinality(FirstOccurrences(codes)) |->
        [code |-> NewEncoded(name, codes)[SortedSeq(FirstOccurrences(codes))[k]].code,
         hash |-> NewEncoded(name, codes)[SortedSeq(FirstOccurrences(codes))[k]].hash]]

\* what holds: an operation none of whose statements fails succeeds and
\* writes the whole record, an operation whose first statement fails
\* returns an error and changes nothing, and insert and delete return an
\* error whenever a statement fails
WriteWithoutFailure ==
    RepoWriteDone =>
        /\ ~StatementFailed =>
              /\ ~calc.out.err
              /\ RecordOf(calc.out.S, calc.in.name) =
                    (IF calc.in.op = "delete" THEN [found |-> FALSE, cfg |-> NoConfig]
                     ELSE [found |-> TRUE,
                           cfg |-> [hash |-> NewModel(calc.in.name).hash,
                                    ctype |-> NewModel(calc.in.name).ctype,
                                    encoded |-> KeptEncoded(calc.in.name, calc.in.codes)]])
        /\ calc.in.at = 1 => calc.out.err /\ calc.out.S = WriteBefore
        /\ (StatementFailed /\ calc.in.op # "update") => calc.out.err

----------------------------------------------------------------------------
RowsOf(S, name) == {r \in S.enc : r.name = name}

StoredNames(S) == {r.name : r \in S.enc}

DistinctRowCodes(S) ==
    \A name \in StoredNames(S) : \A r1, r2 \in RowsOf(S, name) : r1.code = r2.code => r1 = r2

\* C26: in the tree db an insert or update leaves, for each name the
\* encoded rows have pairwise distinct codes and their ord values are
\* exactly 1..N, N being the number of encoded rows of the name, also
\* when the encodings list repeats a code.
C26_DenseOrds ==
    RepoWriteDone =>
        /\ DistinctRowCodes(calc.out.S)
        /\ \A name \in StoredNames(calc.out.S) :
              {r.ord : r \in RowsOf(calc.out.S, name)}
                 = 1..Cardinality(RowsOf(calc.out.S, name))

\* what holds: the codes of a name are pairwise distinct, the ord of a
\* row is the position of the first occurrence of its code in the list
\* that was passed, and the ords are 1..N when that list repeats no code
OrdIsFirstPosition ==
    RepoWriteDone =>
        /\ DistinctRowCodes(calc.out.S)
        /\ (calc.in.op # "delete" /\ ~StatementFailed) =>
              /\ {r.ord : r \in RowsOf(calc.out.S, calc.in.name)}
                    = FirstOccurrences(calc.in.codes)
              /\ \A r \in RowsOf(calc.out.S, calc.in.name) : calc.in.codes[r.ord] = r.code
        /\ \A name \in StoredNames(calc.out.S) \ {calc.in.name} :
              RowsOf(calc.out.S, name) = RowsOf(WriteBefore, name)

----------------------------------------------------------------------------
(* Request ids: Server.lreqID for requests that run concurrently *)

\* the widths of the snowflake, scaled down: the sequence field (24 bits
\* in the code), the timestamp field (40 bits) and the request counter
\* (32 bits)
SeqBits == 2

TsBits == 2

CounterBits == 3

\* the requests of a run, and the milliseconds the clock may advance
MaxFlakeReqs == 5

MaxTicks == 2

WordBits == TsBits + SeqBits

RECURSIVE BitAnd(_, _)
BitAnd(a, b) ==
    IF a = 0 \/ b = 0 THEN 0
    ELSE (a % 2) * (b % 2) + 2 * BitAnd(a \div 2, b \div 2)

RECURSIVE BitOr(_, _)
BitOr(a, b) ==
    IF a = 0 THEN b
    ELSE IF b = 0 THEN a
    ELSE ((a % 2) + (b % 2) - (a % 2) * (b % 2)) + 2 * BitOr(a \div 2, b \div 2)

\* now << n on the unsigned word
ShiftLeft(x, n) == (x * 2^n) % 2^WordBits

\* 0xffffff
SeqMask == 2^SeqBits - 1

\* a snowflake whose sequence is not masked
NewSnowflakeUnmasked(nowms, seq) == BitOr(ShiftLeft(nowms % 2^WordBits, SeqBits), seq)

NewSnowflake(nowms, seq) ==
    BitOr(ShiftLeft(nowms % 2^WordBits, SeqBits), BitAnd(seq, SeqMask))

\* the bytes of the word, big endian, as digits of 6 bits
Base64(id) == <<id \div 64, id % 64>>

\* atomic.Uint32.Add(1): the new value
counterAdd(c) == (c + 1) % 2^CounterBits

FlakeReqs == 1..MaxFlakeReqs

NewReq == [pc |-> "new", seq |-> 0, counted |-> 0, stamped |-> 0, id |-> <<>>]

\* a server that has counted no request, or nearly 2^32 of them, at a
\* clock that is small or about to need more than 40 bits
InitFlake ==
    /\ PublisherIdle
    /\ site = NoSite
    /\ conn = ConnIdle
    /\ \E c \in {0, 2^CounterBits - 2}, t \in {0, 2^TsBits - 1} :
          calc = [fn |-> "lreqID", reqcount |-> c, clock |-> t, ticks |-> 0,
                  req |-> [r \in FlakeReqs |-> NewReq]]

\* s.reqcount.Add(1), the argument of NewSnowflake; the requests are
\* numbered in the order in which they count
FlakeCount(r) ==
    /\ calc.fn = "lreqID"
    /\ calc.req[r].pc = "new"
    /\ \A q \in 1..(r - 1) : calc.req[q].pc # "new"
    /\ calc' = [calc EXCEPT !.reqcount = counterAdd(@),
                            !.req[r] = [@ EXCEPT !.pc = "counted",
                                                 !.seq = counterAdd(calc.reqcount),
                                                 !.counted = calc.clock]]
    /\ UNCHANGED <<ct, enc, gc, blobs, src, now, ops, edits, last, writer, reader,
                   site, conn>>

\* NewSnowflake reads the clock, and lreqID appends the instance
FlakeStamp(r) ==
    /\ calc.fn = "lreqID"
    /\ calc.req[r].pc = "counted"
    /\ calc' = [calc EXCEPT !.req[r] =
                    [@ EXCEPT !.pc = "issued", !.stamped = calc.clock,
                              !.id = Base64(NewSnowflake(calc.clock, calc.req[r].seq))
                                        \o <<"instance">>]]
    /\ UNCHANGED <<ct, enc, gc, blobs, src, now, ops, edits, last, writer, reader,
                   site, conn>>

\* a millisecond passes
FlakeTick ==
    /\ calc.fn = "lreqID"
    /\ calc.ticks < MaxTicks
    /\ calc' = [calc EXCEPT !.clock = @ + 1, !.ticks = @ + 1]
    /\ UNCHANGED <<ct, enc, gc, blobs, src, now, ops, edits, last, writer, reader,
                   site, conn>>

NextFlake ==
    \/ \E r \in FlakeReqs : FlakeCount(r)
    \/ \E r \in FlakeReqs : FlakeStamp(r)
    \/ FlakeTick

SpecFlake == InitFlake /\ [][NextFlake]_vars

----------------------------------------------------------------------------
\* the requests counted in the millisecond t
CountedIn(t) == {r \in FlakeReqs : calc.req[r].pc # "new" /\ calc.req[r].counted = t}

\* the requests whose id was made entirely in the millisecond t
HandledIn(t) ==
    {r \in FlakeReqs : calc.req[r].pc = "issued" /\ calc.req[r].counted = t
                       /\ calc.req[r].stamped = t}

\* the number an id encodes
WordOf(id) == id[1] * 64 + id[2]

SameIdIssued ==
    /\ calc.fn = "lreqID"
    /\ \E r1, r2 \in FlakeReqs :
          /\ r1 # r2
          /\ calc.req[r1].pc = "issued" /\ calc.req[r2].pc = "issued"
          /\ calc.req[r1].id = calc.req[r2].id
          /\ calc.req[r1].stamped = calc.req[r2].stamped
          /\ \A t \in 0..(2^TsBits + MaxTicks) : Cardinality(CountedIn(t)) < 2^SeqBits

----------------------------------------------------------------------------
(* serverResponseWriter: the calls a handler makes on the wrapping writer *)

\* the calls of one request
MaxCalls == 4

\* a call on a writer: WriteHeader(status) or Write(p)
Call(op, status, p) == [op |-> op, status |-> status, p |-> p]

\* &serverResponseWriter{w: w, status: 0}; inner is what reached w.w
NewResponseWriter == [status |-> 0, wroteHeader |-> FALSE, inner |-> <<>>]

\* w.w.WriteHeader(status)
forwardHeader(w, status) == [w EXCEPT !.inner = Append(@, Call("WriteHeader", status, ""))]

\* a WriteHeader that records every status it is given
WriteHeaderLast(w, status) ==
    forwardHeader([w EXCEPT !.status = status, !.wroteHeader = TRUE], status)

WriteHeader(w, status) ==
    IF w.wroteHeader THEN forwardHeader(w, status)
    ELSE forwardHeader([w EXCEPT !.status = status, !.wroteHeader = TRUE], status)

\* w.w.Write(p)
forwardWrite(w, p) == [w EXCEPT !.inner = Append(@, Call("Write", 0, p))]

Write(w, p) ==
    forwardWrite(IF ~w.wroteHeader THEN WriteHeader(w, 200) ELSE w, p)

CallStatuses == {200, 304, 404, 500}

CallChunks == {"a", "b"}

InitWriter ==
    /\ PublisherIdle
    /\ site = NoSite
    /\ conn = ConnIdle
    /\ calc = [fn |-> "responseWriter", w |-> NewResponseWriter, calls |-> <<>>,
               logged |-> FALSE, status |-> 0]

\* the handler calls WriteHeader
CallWriteHeader(status) ==
    /\ calc.fn = "responseWriter"
    /\ ~calc.logged
    /\ Len(calc.calls) < MaxCalls
    /\ calc' = [calc EXCEPT !.w = WriteHeader(@, status),
                            !.calls = Append(@, Call("WriteHeader", status, ""))]
    /\ UNCHANGED <<ct, enc, gc, blobs, src, now, ops, edits, last, writer, reader,
                   site, conn>>

\* the handler calls Write
CallWrite(p) ==
    /\ calc.fn = "responseWriter"
    /\ ~calc.logged
    /\ Len(calc.calls) < MaxCalls
    /\ calc' = [calc EXCEPT !.w = Write(@, p),
                            !.calls = Append(@, Call("Write", 0, p))]
    /\ UNCHANGED <<ct, enc, gc, blobs, src, now, ops, edits, last, writer, reader,
                   site, conn>>

\* the handler has returned: ServeHTTP logs w2.status
LogResponse ==
    /\ calc.fn = "responseWriter"
    /\ ~calc.logged
    /\ calc' = [calc EXCEPT !.logged = TRUE, !.status = calc.w.status]
    /\ UNCHANGED <<ct, enc, gc, blobs, src, now, ops, edits, last, writer, reader,
                   site, conn>>

NextWriter ==
    \/ \E status \in CallStatuses : CallWriteHeader(status)
    \/ \E p \in CallChunks : CallWrite(p)
    \/ LogResponse

SpecWriter == InitWriter /\ [][NextWriter]_vars

----------------------------------------------------------------------------
\* the status of the first WriteHeader call, explicit or implicit in a
\* Write, and 0 when the handler made no call
FirstStatus(calls) ==
    IF calls = <<>> THEN 0
    ELSE IF calls[1].op = "WriteHeader" THEN calls[1].status
    ELSE 200

\* the body chunks of a sequence of calls, in order
RECURSIVE Chunks(_)
Chunks(calls) ==
    IF calls = <<>> THEN <<>>
    ELSE IF Head(calls).op = "Write" THEN <<Head(calls).p>> \o Chunks(Tail(calls))
    ELSE Chunks(Tail(calls))

\* C29: the wrapping writer forwards a status line before any body byte,
\* an implicit 200 when the first call is a Write; the status it records,
\* which is the status logged for the request, is that of the first
\* WriteHeader call, explicit or implicit, whatever calls follow.
C29_FirstStatusLogged ==
    calc.fn = "responseWriter" =>
        /\ calc.w.inner # <<>> => calc.w.inner[1].op = "WriteHeader"
        /\ (calc.calls # <<>> /\ calc.calls[1].op = "Write")
              => calc.w.inner[1] = Call("WriteHeader", 200, "")
        /\ calc.w.status = FirstStatus(calc.calls)
        /\ calc.w.wroteHeader <=> calc.calls # <<>>
        /\ calc.logged => calc.status = FirstStatus(calc.calls)
        /\ Chunks(calc.w.inner) = Chunks(calc.calls)

\* a Write first, then an explicit WriteHeader and another Write: 200 is
\* what was logged
C29_Witness ==
    /\ calc.fn = "responseWriter"
    /\ calc.logged
    /\ calc.calls = <<Call("Write", 0, "a"), Call("WriteHeader", 404, ""), Call("Write", 0, "b")>>
    /\ calc.status = 200
    /\ calc.w.inner = <<Call("WriteHeader", 200, ""), Call("Write", 0, "a"),
                        Call("WriteHeader", 404, ""), Call("Write", 0, "b")>>

====
